---- MODULE Spec2Model ----
(***************************************************************************)
(* Session and capability-negotiation layer of the MCP server starter:     *)
(*   SessionManager        (src/src/session-manager.ts)                    *)
(*   EnhancedHttpHandler   (src/src/enhanced-http-handler.ts)              *)
(*   SSETransportManager   (src/src/sse-transport.ts)                      *)
(***************************************************************************)
EXTENDS Integers, Sequences, FiniteSets, TLC

(***************************************************************************)
(* Bounds of the model.                                                    *)
(***************************************************************************)
\* number of distinct experimental feature names considered
MaxExp == 2
\* the clock runs from 0 to MaxTime (minutes)
MaxTime == 6
\* number of stream-open requests (fresh streaming session ids)
MaxSessions == 2
\* the clock of the session store runs from 0 to MaxStoreTime
MaxStoreTime == 1
\* number of stream-open requests when both endpoints run together
\* the handleMessage calls of one session that may await the transport at one time
MaxInFlight == 1

MaxServerStreams == 1

ExpKeys == 1..MaxExp

\* the session ids of the streams, in the order their transports are constructed
StreamIds == 1..MaxSessions

(***************************************************************************)
(* Capability sets.  A capability value is a JSON value read for its       *)
(* truthiness only: "undef" is a missing field, "obj" is the object {}.    *)
(***************************************************************************)
Val == {"undef", "obj"}

Truthy(v) == v # "undef"

CapKeys == {"tools", "resources", "prompts", "logging", "sampling"}

NoExpMap == [x \in ExpKeys |-> "undef"]

ExpDomain ==
  {[has |-> FALSE, m |-> NoExpMap]} \cup {[has |-> TRUE, m |-> f] : f \in [ExpKeys -> Val]}

CapsDomain ==
  [tools : Val, resources : Val, prompts : Val, logging : Val, sampling : Val,
   experimental : ExpDomain]

\* the literal {} used when a client sends no capabilities
EmptyCaps ==
  [tools |-> "undef", resources |-> "undef", prompts |-> "undef", logging |-> "undef",
   sampling |-> "undef", experimental |-> [has |-> FALSE, m |-> NoExpMap]]

\* serverCapabilities of the SessionManager constructor default and of EnhancedMCPServer
DefaultServerCapabilities ==
  [tools |-> "obj", resources |-> "obj", prompts |-> "obj", logging |-> "obj",
   sampling |-> "undef", experimental |-> [has |-> FALSE, m |-> NoExpMap]]

VARIABLES
  serverCapabilities,  \* SessionManager.serverCapabilities
  sessions,            \* SessionManager.sessions : id -> ManagedSession
  streamSessions,      \* sessions of the SessionManager of the streaming EnhancedMCPServer
  now,                 \* the clock read by new Date()
  negClient,           \* argument of the negotiateCapabilities calls under test
  negOut,              \* results of the successive negotiateCapabilities calls
  negSwapped,          \* result of the call with the two roles exchanged
  sseSessions,         \* SSETransportManager.sessions : id -> SSESession
  cleanupInterval,     \* SSETransportManager.cleanupInterval is set (the timer runs)
  streamsOpened,       \* number of SSEServerTransport objects constructed so far
  closeCount,          \* per stream, the number of transport.close() calls
  closeEmitted,        \* streams whose response has emitted its 'close' event
  inFlight,            \* per stream, the handleMessage calls awaiting the transport
  lastOp               \* the operation performed by the last step, and its outcome

vars == <<serverCapabilities, sessions, streamSessions, now, negClient, negOut, negSwapped,
          sseSessions, cleanupInterval, streamsOpened, closeCount, closeEmitted, inFlight,
          lastOp>>

\* the variables of the streaming transport manager
sseVars == <<sseSessions, cleanupInterval, streamsOpened, closeCount, closeEmitted>>

\* the variables of the negotiation calls under test
negVars == <<negClient, negOut, negSwapped>>

EmptyMap == [x \in {} |-> x]

NoOp == [op |-> "none"]

\* no handleMessage call is awaiting its transport
NoneInFlight == [x \in StreamIds |-> 0]

(***************************************************************************)
(* SessionManager.negotiateCapabilities                                    *)
(***************************************************************************)
\* the experimental part of the negotiated set, as lines 94-103 compute it
NegotiatedExperimental(server, client) ==
  IF client.experimental.has /\ server.experimental.has
  THEN [has |-> TRUE,
        keys |-> {x \in ExpKeys : Truthy(client.experimental.m[x])
                                  /\ Truthy(server.experimental.m[x])}]
  ELSE [has |-> FALSE, keys |-> {}]

\* tools granted on the client's word alone
negotiateCapabilities_toolsClientOnly(server, client) ==
  [tools |-> Truthy(client.tools),
   resources |-> Truthy(server.resources) /\ Truthy(client.resources),
   prompts |-> Truthy(server.prompts) /\ Truthy(client.prompts),
   logging |-> Truthy(server.logging) /\ Truthy(client.logging),
   sampling |-> Truthy(client.sampling),
   experimental |-> NegotiatedExperimental(server, client)]

\* sampling treated like the other keys
negotiateCapabilities_samplingBoth(server, client) ==
  [tools |-> Truthy(server.tools) /\ Truthy(client.tools),
   resources |-> Truthy(server.resources) /\ Truthy(client.resources),
   prompts |-> Truthy(server.prompts) /\ Truthy(client.prompts),
   logging |-> Truthy(server.logging) /\ Truthy(client.logging),
   sampling |-> Truthy(server.sampling) /\ Truthy(client.sampling),
   experimental |-> NegotiatedExperimental(server, client)]

\* every experimental key of the client granted once both sides have an experimental map
negotiateCapabilities_expClientKeys(server, client) ==
  [tools |-> Truthy(server.tools) /\ Truthy(client.tools),
   resources |-> Truthy(server.resources) /\ Truthy(client.resources),
   prompts |-> Truthy(server.prompts) /\ Truthy(client.prompts),
   logging |-> Truthy(server.logging) /\ Truthy(client.logging),
   sampling |-> Truthy(client.sampling),
   experimental |->
     IF client.experimental.has /\ server.experimental.has
     THEN [has |-> TRUE, keys |-> {x \in ExpKeys : Truthy(client.experimental.m[x])}]
     ELSE [has |-> FALSE, keys |-> {}]]

\* logging decided by the server alone
negotiateCapabilities_loggingServerOnly(server, client) ==
  [tools |-> Truthy(server.tools) /\ Truthy(client.tools),
   resources |-> Truthy(server.resources) /\ Truthy(client.resources),
   prompts |-> Truthy(server.prompts) /\ Truthy(client.prompts),
   logging |-> Truthy(server.logging),
   sampling |-> Truthy(client.sampling),
   experimental |-> NegotiatedExperimental(server, client)]

negotiateCapabilities(server, client) ==
  LET n0 == [tools |-> FALSE, resources |-> FALSE, prompts |-> FALSE, logging |-> FALSE,
             sampling |-> FALSE, experimental |-> [has |-> FALSE, keys |-> {}]]
      n1 == IF Truthy(server.tools) /\ Truthy(client.tools)
            THEN [n0 EXCEPT !.tools = TRUE] ELSE n0
      n2 == IF Truthy(server.resources) /\ Truthy(client.resources)
            THEN [n1 EXCEPT !.resources = TRUE] ELSE n1
      n3 == IF Truthy(server.prompts) /\ Truthy(client.prompts)
            THEN [n2 EXCEPT !.prompts = TRUE] ELSE n2
      n4 == IF Truthy(server.logging) /\ Truthy(client.logging)
            THEN [n3 EXCEPT !.logging = TRUE] ELSE n3
      n5 == IF Truthy(client.sampling)
            THEN [n4 EXCEPT !.sampling = TRUE] ELSE n4
      n6 == IF client.experimental.has /\ server.experimental.has
            THEN [n5 EXCEPT !.experimental =
                    [has |-> TRUE,
                     keys |-> {x \in ExpKeys : Truthy(client.experimental.m[x])
                                               /\ Truthy(server.experimental.m[x])}]]
            ELSE n5
  IN n6

(***************************************************************************)
(* SessionManager: the session store.  Every operator takes the map s      *)
(* (this.sessions) and the time t read by new Date(), and yields the new   *)
(* map.                                                                    *)
(***************************************************************************)
SessionIds == {"http-default", "s2"}

MetaKeys == {"transport", "tag"}
MetaVals == {"v1"}
\* the partial maps over MetaKeys: session metadata and the updates of it
MetaMaps == UNION {[K -> MetaVals] : K \in SUBSET MetaKeys}

ClientInfos == {"test-client"}
ProtocolVersions == {"2025-06-18"}

Put(s, id, rec) == [x \in (DOMAIN s) \cup {id} |-> IF x = id THEN rec ELSE s[x]]

Drop(s, id) == [x \in (DOMAIN s) \ {id} |-> s[x]]

\* { ...a, ...b }
Spread(a, b) == [x \in (DOMAIN a) \cup (DOMAIN b) |-> IF x \in DOMAIN b THEN b[x] ELSE a[x]]

\* a record for an id already present merged into the old one instead of replacing it
\* the negotiated set of the record being replaced kept under the new client set
createSession_keepNegotiated(s, sessionId, clientInfo, protocolVersion, clientCapabilities, t) ==
  Put(s, sessionId,
      [id |-> sessionId,
       clientInfo |-> clientInfo,
       protocolVersion |-> protocolVersion,
       clientCapabilities |-> clientCapabilities,
       negotiatedCapabilities |->
         IF sessionId \in DOMAIN s
         THEN s[sessionId].negotiatedCapabilities
         ELSE negotiateCapabilities(serverCapabilities, clientCapabilities),
       metadata |-> EmptyMap,
       createdAt |-> t,
       lastActivity |-> t])

createSession_merge(s, sessionId, clientInfo, protocolVersion, clientCapabilities, t) ==
  LET n == negotiateCapabilities(serverCapabilities, clientCapabilities)
      old == s[sessionId].negotiatedCapabilities
  IN Put(s, sessionId,
         [id |-> sessionId,
          clientInfo |-> clientInfo,
          protocolVersion |-> protocolVersion,
          clientCapabilities |-> clientCapabilities,
          negotiatedCapabilities |->
            IF sessionId \in DOMAIN s
            THEN [tools |-> n.tools \/ old.tools,
                  resources |-> n.resources \/ old.resources,
                  prompts |-> n.prompts \/ old.prompts,
                  logging |-> n.logging \/ old.logging,
                  sampling |-> n.sampling \/ old.sampling,
                  experimental |-> n.experimental]
            ELSE n,
          metadata |-> IF sessionId \in DOMAIN s THEN s[sessionId].metadata ELSE EmptyMap,
          createdAt |-> t,
          lastActivity |-> t])

createSession(s, sessionId, clientInfo, protocolVersion, clientCapabilities, t) ==
  Put(s, sessionId,
      [id |-> sessionId,
       clientInfo |-> clientInfo,
       protocolVersion |-> protocolVersion,
       clientCapabilities |-> clientCapabilities,
       negotiatedCapabilities |-> negotiateCapabilities(serverCapabilities, clientCapabilities),
       metadata |-> EmptyMap,
       createdAt |-> t,
       lastActivity |-> t])

getSession(s, sessionId, t) ==
  IF sessionId \in DOMAIN s
  THEN [s EXCEPT ![sessionId].lastActivity = t]
  ELSE s

\* the client's advertised set consulted instead of the negotiated one
hasCapability_clientAdvertised(s, sessionId, capability) ==
  IF sessionId \notin DOMAIN s
  THEN FALSE
  ELSE IF capability = "experimental"
       THEN s[sessionId].clientCapabilities.experimental.has
       ELSE Truthy(s[sessionId].clientCapabilities[capability])

\* an absent session taken to grant everything
hasCapability_noSessionCheck(s, sessionId, capability) ==
  IF sessionId \notin DOMAIN s
  THEN TRUE
  ELSE IF capability = "experimental"
       THEN s[sessionId].negotiatedCapabilities.experimental.has
       ELSE s[sessionId].negotiatedCapabilities[capability]

\* capability ranges over the keys of NegotiatedCapabilities; !!{} is true
hasCapability(s, sessionId, capability) ==
  IF sessionId \notin DOMAIN s
  THEN FALSE
  ELSE IF capability = "experimental"
       THEN s[sessionId].negotiatedCapabilities.experimental.has
       ELSE s[sessionId].negotiatedCapabilities[capability]

\* the metadata merged into every record of the store
updateSessionMetadata_everySession(s, sessionId, metadata, t) ==
  IF sessionId \in DOMAIN s
  THEN [x \in DOMAIN s |-> [s[x] EXCEPT !.metadata = Spread(@, metadata),
                                         !.lastActivity = t]]
  ELSE s

updateSessionMetadata(s, sessionId, metadata, t) ==
  IF sessionId \in DOMAIN s
  THEN [s EXCEPT ![sessionId].metadata = Spread(@, metadata),
                 ![sessionId].lastActivity = t]
  ELSE s

removeSession(s, sessionId) == Drop(s, sessionId)

getActiveSessions(s) == {s[x] : x \in DOMAIN s}

cleanupStaleSessions(s, maxInactivityMs, t) ==
  LET stale == {x \in DOMAIN s : t - s[x].lastActivity > maxInactivityMs}
  IN [x \in (DOMAIN s) \ stale |-> s[x]]

clearAllSessions(s) == EmptyMap

\* everything the server advertises reported, whatever was negotiated
getSessionCapabilities_serverAdvertised(s, sessionId) ==
  IF sessionId \notin DOMAIN s
  THEN [keys |-> {}, hasExp |-> FALSE, exp |-> {}]
  ELSE [keys |-> {k \in {"tools", "resources", "prompts", "logging"} :
                    Truthy(serverCapabilities[k])},
        hasExp |-> serverCapabilities.experimental.has,
        exp |-> {x \in ExpKeys : Truthy(serverCapabilities.experimental.m[x])}]

\* the ServerCapabilities object returned to the client by initialize
getSessionCapabilities(s, sessionId) ==
  IF sessionId \notin DOMAIN s
  THEN [keys |-> {}, hasExp |-> FALSE, exp |-> {}]
  ELSE LET n == s[sessionId].negotiatedCapabilities
       IN [keys |-> {k \in {"tools", "resources", "prompts", "logging"} : n[k]},
           hasExp |-> n.experimental.has,
           exp |-> {x \in n.experimental.keys : Truthy(serverCapabilities.experimental.m[x])}]

(***************************************************************************)
(* The negotiation function on its own: a SessionManager is constructed    *)
(* with some server capability set, negotiateCapabilities is called twice  *)
(* with the same client set, then once with the two sets exchanged.        *)
(***************************************************************************)
InitNeg ==
  /\ serverCapabilities \in CapsDomain
  /\ negClient \in CapsDomain
  /\ sessions = EmptyMap
  /\ streamSessions = EmptyMap
  /\ inFlight = NoneInFlight
  /\ now = 0
  /\ negOut = <<>>
  /\ negSwapped = <<>>
  /\ sseSessions = EmptyMap
  /\ cleanupInterval = TRUE
  /\ streamsOpened = 0
  /\ closeCount = [x \in StreamIds |-> 0]
  /\ closeEmitted = {}
  /\ lastOp = NoOp

NegotiateCall ==
  /\ Len(negOut) < 2
  /\ negOut' = Append(negOut, negotiateCapabilities(serverCapabilities, negClient))
  /\ lastOp' = [op |-> "negotiateCapabilities"]
  /\ UNCHANGED <<serverCapabilities, streamSessions, inFlight, sessions, now, negClient, negSwapped, sseVars>>

NegotiateSwappedCall ==
  /\ Len(negOut) = 2
  /\ negSwapped = <<>>
  /\ negSwapped' = <<negotiateCapabilities(negClient, serverCapabilities)>>
  /\ lastOp' = [op |-> "negotiateSwapped"]
  /\ UNCHANGED <<serverCapabilities, streamSessions, inFlight, sessions, now, negClient, negOut, sseVars>>

NextNeg == NegotiateCall \/ NegotiateSwappedCall

SpecNeg == InitNeg /\ [][NextNeg]_vars

(***************************************************************************)
(* The session store driven through its public operations.                 *)
(***************************************************************************)
ExpOf(S) == [has |-> TRUE, m |-> [x \in ExpKeys |-> IF x \in S THEN "obj" ELSE "undef"]]

NoExp == [has |-> FALSE, m |-> NoExpMap]

CapsOf(S, e) ==
  [tools |-> IF "tools" \in S THEN "obj" ELSE "undef",
   resources |-> IF "resources" \in S THEN "obj" ELSE "undef",
   prompts |-> IF "prompts" \in S THEN "obj" ELSE "undef",
   logging |-> IF "logging" \in S THEN "obj" ELSE "undef",
   sampling |-> IF "sampling" \in S THEN "obj" ELSE "undef",
   experimental |-> e]

\* server capability sets a SessionManager is constructed with
StoreServerChoices ==
  {DefaultServerCapabilities, CapsOf({"tools", "resources", "sampling"}, ExpOf({2}))}

\* client capability sets passed to createSession
StoreClientCaps ==
  {EmptyCaps,
   CapsOf({"tools"}, NoExp),
   CapsOf({"tools", "resources", "prompts", "logging"}, ExpOf({1})),
   CapsOf({"resources", "sampling"}, ExpOf({1, 2}))}

InitStore ==
  /\ serverCapabilities \in StoreServerChoices
  /\ sessions = EmptyMap
  /\ streamSessions = EmptyMap
  /\ inFlight = NoneInFlight
  /\ now = 0
  /\ negClient = EmptyCaps
  /\ negOut = <<>>
  /\ negSwapped = <<>>
  /\ sseSessions = EmptyMap
  /\ cleanupInterval = TRUE
  /\ streamsOpened = 0
  /\ closeCount = [x \in StreamIds |-> 0]
  /\ closeEmitted = {}
  /\ lastOp = NoOp

\* what the store held for id before an operation (recorded with the operation)
Before(s, id) ==
  [present |-> id \in DOMAIN s,
   granted |-> {k \in CapKeys : hasCapability(s, id, k)},
   hasMeta |-> id \in DOMAIN s /\ DOMAIN s[id].metadata # {}]

CreateSession(id, ci, pv, c) ==
  /\ sessions' = createSession(sessions, id, ci, pv, c, now)
  /\ lastOp' = [op |-> "createSession", id |-> id, caps |-> c, before |-> Before(sessions, id)]
  /\ UNCHANGED <<serverCapabilities, streamSessions, inFlight, now, negVars, sseVars>>

GetSession(id) ==
  /\ sessions' = getSession(sessions, id, now)
  /\ lastOp' = [op |-> "getSession", id |-> id]
  /\ UNCHANGED <<serverCapabilities, streamSessions, inFlight, now, negVars, sseVars>>

UpdateSessionMetadata(id, md) ==
  /\ sessions' = updateSessionMetadata(sessions, id, md, now)
  /\ lastOp' = [op |-> "updateSessionMetadata", id |-> id]
  /\ UNCHANGED <<serverCapabilities, streamSessions, inFlight, now, negVars, sseVars>>

RemoveSession(id) ==
  /\ sessions' = removeSession(sessions, id)
  /\ lastOp' = [op |-> "removeSession", id |-> id]
  /\ UNCHANGED <<serverCapabilities, streamSessions, inFlight, now, negVars, sseVars>>

CleanupStaleSessions(maxInactivityMs) ==
  /\ sessions' = cleanupStaleSessions(sessions, maxInactivityMs, now)
  /\ lastOp' = [op |-> "cleanupStaleSessions", max |-> maxInactivityMs]
  /\ UNCHANGED <<serverCapabilities, streamSessions, inFlight, now, negVars, sseVars>>

ClearAllSessions ==
  /\ sessions' = clearAllSessions(sessions)
  /\ lastOp' = [op |-> "clearAllSessions"]
  /\ UNCHANGED <<serverCapabilities, streamSessions, inFlight, now, negVars, sseVars>>

\* the clock advances and the store's idle cleanup runs with a threshold of 0
StoreTick_cleanup ==
  /\ now < MaxStoreTime
  /\ now' = now + 1
  /\ sessions' = cleanupStaleSessions(sessions, 0, now + 1)
  /\ lastOp' = [op |-> "tick"]
  /\ UNCHANGED <<serverCapabilities, streamSessions, inFlight, negVars, sseVars>>

\* time passes; nothing in the program calls cleanupStaleSessions
StoreTick ==
  /\ now < MaxStoreTime
  /\ now' = now + 1
  /\ lastOp' = [op |-> "tick"]
  /\ UNCHANGED <<serverCapabilities, streamSessions, inFlight, sessions, negVars, sseVars>>

NextStore ==
  \/ \E id \in SessionIds, ci \in ClientInfos, pv \in ProtocolVersions, c \in StoreClientCaps :
       CreateSession(id, ci, pv, c)
  \/ \E id \in SessionIds : GetSession(id)
  \/ \E id \in SessionIds, md \in MetaMaps \ {EmptyMap} : UpdateSessionMetadata(id, md)
  \/ \E id \in SessionIds : RemoveSession(id)
  \/ \E m \in 0..1 : CleanupStaleSessions(m)
  \/ ClearAllSessions
  \/ StoreTick

SpecStore == InitStore /\ [][NextStore]_vars

(***************************************************************************)
(* The negotiation table of the specification, written key by key.         *)
(***************************************************************************)
Advertises(caps, k) == Truthy(caps[k])

AdvertisesExp(caps, x) == caps.experimental.has /\ Truthy(caps.experimental.m[x])

NegotiationTable(server, client, k) ==
  IF k = "sampling"
  THEN Advertises(client, "sampling")
  ELSE Advertises(server, k) /\ Advertises(client, k)

SymmetricKeys == {"tools", "resources", "prompts", "logging"}

\* C4: for each k in {tools, resources, prompts, logging}, the negotiated value of k is
\* true if and only if the server set advertises k and the client set advertises k;
\* missing fields count as not advertised and the call always returns a result.
C4_SymmetricKeysIffBoth ==
  Len(negOut) >= 1 =>
    \A k \in SymmetricKeys :
      negOut[1][k] <=> (Advertises(serverCapabilities, k) /\ Advertises(negClient, k))

\* a call where the server advertises resources, the client does not, and both advertise tools
C4_Witness ==
  /\ Len(negOut) >= 1
  /\ negOut[1].tools /\ ~negOut[1].resources
  /\ Advertises(serverCapabilities, "resources") /\ ~Advertises(negClient, "resources")
  /\ negClient.prompts = "undef" /\ serverCapabilities.logging = "undef"

\* C5: negotiated.sampling is true if and only if the client advertises sampling,
\* whatever the server advertises.
C5_SamplingIffClient ==
  Len(negOut) >= 1 => (negOut[1].sampling <=> Advertises(negClient, "sampling"))

\* sampling negotiated with a server that advertises nothing at all
C5_Witness ==
  /\ Len(negOut) >= 1
  /\ negOut[1].sampling
  /\ serverCapabilities = EmptyCaps

TableNegotiated(server, client) ==
  [tools |-> NegotiationTable(server, client, "tools"),
   resources |-> NegotiationTable(server, client, "resources"),
   prompts |-> NegotiationTable(server, client, "prompts"),
   logging |-> NegotiationTable(server, client, "logging"),
   sampling |-> NegotiationTable(server, client, "sampling"),
   experimental |->
     [has |-> server.experimental.has /\ client.experimental.has,
      keys |-> {x \in ExpKeys : AdvertisesExp(server, x) /\ AdvertisesExp(client, x)}]]

\* C3: after createSession(id, .., C) hasCapability(id, k) equals the table applied to
\* (server capabilities, C) for every k in {tools, resources, prompts, logging, sampling},
\* it keeps that value until the next createSession or removal of id, and it is false
\* for an id that is not in the store.
C3_HasCapabilityMatchesTable ==
  [][\A id \in SessionIds, k \in CapKeys :
       /\ (lastOp'.op = "createSession" /\ lastOp'.id = id)
            => (hasCapability(sessions', id, k)
                  = NegotiationTable(serverCapabilities, lastOp'.caps, k))
       /\ (~(lastOp'.op = "createSession" /\ lastOp'.id = id) /\ id \in DOMAIN sessions')
            => (id \in DOMAIN sessions
                  /\ hasCapability(sessions', id, k) = hasCapability(sessions, id, k))
       /\ (id \notin DOMAIN sessions') => ~hasCapability(sessions', id, k)]_vars

\* s2 was created with sampling but without tools and has been read since; the other id is absent
C3_Witness ==
  /\ lastOp.op = "getSession" /\ lastOp.id = "s2"
  /\ "s2" \in DOMAIN sessions /\ "http-default" \notin DOMAIN sessions
  /\ hasCapability(sessions, "s2", "sampling") /\ hasCapability(sessions, "s2", "resources")
  /\ ~hasCapability(sessions, "s2", "tools")
  /\ sessions["s2"].lastActivity > sessions["s2"].createdAt

\* C8: a createSession for an id that is already in the store replaces the record: the
\* negotiated set is the table applied to (server capabilities, the new client set), a
\* capability granted before and not advertised by the new client set is no longer
\* granted, and the metadata of the replaced record is gone.
C8_ReinitializeResets ==
  [][(lastOp'.op = "createSession" /\ lastOp'.id \in DOMAIN sessions) =>
       LET id == lastOp'.id
           c2 == lastOp'.caps
       IN /\ id \in DOMAIN sessions'
          /\ sessions'[id].negotiatedCapabilities = TableNegotiated(serverCapabilities, c2)
          /\ sessions'[id].clientCapabilities = c2
          /\ \A k \in CapKeys :
               (hasCapability(sessions, id, k) /\ ~Advertises(c2, k))
                 => ~hasCapability(sessions', id, k)
          /\ sessions'[id].metadata = EmptyMap]_vars

\* a second createSession with only tools for an id that had resources granted and metadata
C8_Witness ==
  /\ lastOp.op = "createSession"
  /\ lastOp.before.present /\ lastOp.before.hasMeta
  /\ "resources" \in lastOp.before.granted
  /\ ~hasCapability(sessions, lastOp.id, "resources")
  /\ hasCapability(sessions, lastOp.id, "tools")
  /\ sessions[lastOp.id].metadata = EmptyMap

(***************************************************************************)
(* EnhancedHttpHandler: the single-shot endpoint POST /mcp.                *)
(***************************************************************************)
PARSE_ERROR == -32700
INVALID_REQUEST == -32600
METHOD_NOT_FOUND == -32601
INVALID_PARAMS == -32602
INTERNAL_ERROR == -32603

\* EnhancedHttpHandler.sessionId
HttpSessionId == "http-default"

GatedMethods ==
  {"tools/list", "tools/call", "resources/list", "resources/templates/list",
   "resources/read", "prompts/list", "prompts/get"}

Methods ==
  {"ping", "initialize", "notifications/initialized", "unknown/method"} \cup GatedMethods

\* request ids: a JSON value, the JSON null, or no id member at all
ReqIds == {"id1", "null", "undef"}

\* client capability sets sent with initialize
HttpCaps ==
  {CapsOf(S, NoExp) : S \in SUBSET {"tools", "resources", "prompts"}}
    \cup {CapsOf({"tools", "resources", "prompts", "logging"}, NoExp),
          CapsOf({"logging", "sampling"}, ExpOf({1}))}

ToolNames == {"echo", "no_such_tool"}
Messages == {"undef", "hi"}
Uris == {"config://sample", "text://welcome", "file://nowhere"}
PromptNames == {"calculate", "query", "no_such_prompt"}

NoParams == [kind |-> "undef"]

\* the params sent with a method; the methods that read no params get params: {}
ParamsOf(method) ==
  CASE method = "initialize" ->
         {NoParams, [kind |-> "init", hasCaps |-> FALSE, capabilities |-> EmptyCaps]}
           \cup {[kind |-> "init", hasCaps |-> TRUE, capabilities |-> c] : c \in HttpCaps}
    [] method = "tools/call" ->
         {NoParams,
          [kind |-> "tool", name |-> "no_such_tool", arguments |-> "obj", message |-> "undef"],
          [kind |-> "tool", name |-> "echo", arguments |-> "null", message |-> "undef"]}
           \cup {[kind |-> "tool", name |-> "echo", arguments |-> "obj", message |-> m] :
                   m \in Messages}
    [] method = "resources/read" -> {NoParams} \cup {[kind |-> "uri", uri |-> u] : u \in Uris}
    [] method = "prompts/get" ->
         {NoParams} \cup {[kind |-> "prompt", name |-> n] : n \in PromptNames}
    [] OTHER -> {[kind |-> "empty"]}

\* request bodies: well-formed envelopes, envelopes with a wrong or missing protocol
\* tag or a missing method, and a missing body
WellFormedRequests ==
  UNION {{[body |-> TRUE, jsonrpc |-> "2.0", id |-> i, method |-> m, params |-> p] :
            i \in {"id1", "null"}, p \in ParamsOf(m)} : m \in Methods}
    \cup {[body |-> TRUE, jsonrpc |-> "2.0", id |-> "undef",
           method |-> "notifications/initialized", params |-> [kind |-> "empty"]]}

MalformedRequests ==
  {[body |-> TRUE, jsonrpc |-> j, id |-> i, method |-> m, params |-> NoParams] :
     j \in {"1.0", "undef"}, i \in ReqIds, m \in {"tools/list", "undef"}}
    \cup {[body |-> TRUE, jsonrpc |-> "2.0", id |-> i, method |-> "undef", params |-> NoParams] :
            i \in ReqIds}
    \cup {[body |-> FALSE, jsonrpc |-> "undef", id |-> "undef", method |-> "undef",
           params |-> NoParams]}

Requests == WellFormedRequests \cup MalformedRequests

\* outcomes of routeRequest: a returned result, or a thrown value whose code is 0
\* when the thrown value has no code member (a TypeError, an Error)
Return(result, s, exec) ==
  [thrown |-> FALSE, code |-> 0, result |-> result, store |-> s, exec |-> exec]

Throw(code, s) ==
  [thrown |-> TRUE, code |-> code, result |-> [kind |-> "none"], store |-> s, exec |-> "none"]

\* tools.ts echoTool
echoTool(message) ==
  IF message = "undef"
  THEN [success |-> FALSE, text |-> "Message is required"]
  ELSE [success |-> TRUE, text |-> "Echo: " \o message]

\* an unknown tool name and an exception of the tool answered as an error of the router
callTool_throwUnknown(request, s) ==
  IF request.params.kind = "undef"
  THEN Throw(0, s)
  ELSE IF request.params.name = "echo" /\ request.params.arguments # "null"
       THEN Return([kind |-> "content", text |-> echoTool(request.params.message).text,
                    isError |-> FALSE], s, "tool:echo")
       ELSE Throw(METHOD_NOT_FOUND, s)

\* the tools/call case after the capability check: reading request.params.name of
\* absent params raises a TypeError before the try block; inside the try block an
\* unknown name and args.message of a null arguments member raise, and the catch
\* clause returns a result with isError: true; a tool result is returned as text
\* with no isError member, whatever its success member is
callTool(request, s) ==
  IF request.params.kind = "undef"
  THEN Throw(0, s)
  ELSE IF request.params.name = "echo"
       THEN IF request.params.arguments = "null"
            THEN Return([kind |-> "content", text |-> "Error executing tool",
                         isError |-> TRUE], s, "none")
            ELSE Return([kind |-> "content", text |-> echoTool(request.params.message).text,
                         isError |-> FALSE], s, "tool:echo")
       ELSE Return([kind |-> "content", text |-> "Error executing tool",
                    isError |-> TRUE], s, "none")

readResource(request, s) ==
  IF request.params.kind = "undef"
  THEN Throw(0, s)
  ELSE IF request.params.uri \in {"config://sample", "text://welcome"}
       THEN Return([kind |-> "contents", uri |-> request.params.uri], s, "resources/read")
       ELSE Throw(INVALID_PARAMS, s)

getPrompt(request, s) ==
  IF request.params.kind = "undef"
  THEN Throw(0, s)
  ELSE IF request.params.name \in {"calculate", "query"}
       THEN Return([kind |-> "messages", name |-> request.params.name], s, "prompts/get")
       ELSE Throw(INVALID_PARAMS, s)

\* the capability a gated method needs
RequiredCapability(method) ==
  CASE method \in {"tools/list", "tools/call"} -> "tools"
    [] method \in {"resources/list", "resources/templates/list", "resources/read"} -> "resources"
    [] method \in {"prompts/list", "prompts/get"} -> "prompts"

\* the router without its capability checks
routeRequest_noGate(request, s, t) ==
  CASE request.method = "ping" -> Return([kind |-> "empty"], s, "none")
    [] request.method = "initialize" ->
         IF request.params.kind = "undef"
         THEN Throw(0, s)
         ELSE LET s1 == createSession(s, HttpSessionId, "test-client", "2025-06-18",
                                      request.params.capabilities, t)
              IN Return([kind |-> "initialize",
                         capabilities |-> getSessionCapabilities(s1, HttpSessionId)],
                        s1, "createSession")
    [] request.method = "tools/list" -> Return([kind |-> "tools"], s, "tools/list")
    [] request.method = "tools/call" -> callTool(request, s)
    [] request.method = "resources/list" -> Return([kind |-> "resources"], s, "resources/list")
    [] request.method = "resources/templates/list" ->
         Return([kind |-> "resourceTemplates"], s, "resources/templates/list")
    [] request.method = "resources/read" -> readResource(request, s)
    [] request.method = "prompts/list" -> Return([kind |-> "prompts"], s, "prompts/list")
    [] request.method = "prompts/get" -> getPrompt(request, s)
    [] OTHER -> Throw(METHOD_NOT_FOUND, s)

routeRequest(request, s, t) ==
  CASE request.method = "ping" -> Return([kind |-> "empty"], s, "none")
    [] request.method = "initialize" ->
         IF request.params.kind = "undef"
         THEN Throw(0, s)
         ELSE LET s1 == createSession(s, HttpSessionId, "test-client", "2025-06-18",
                                      request.params.capabilities, t)
              IN Return([kind |-> "initialize",
                         capabilities |-> getSessionCapabilities(s1, HttpSessionId)],
                        s1, "createSession")
    [] request.method = "tools/list" ->
         IF ~hasCapability(s, HttpSessionId, "tools")
         THEN Throw(METHOD_NOT_FOUND, s)
         ELSE Return([kind |-> "tools"], s, "tools/list")
    [] request.method = "tools/call" ->
         IF ~hasCapability(s, HttpSessionId, "tools")
         THEN Throw(METHOD_NOT_FOUND, s)
         ELSE callTool(request, s)
    [] request.method = "resources/list" ->
         IF ~hasCapability(s, HttpSessionId, "resources")
         THEN Throw(METHOD_NOT_FOUND, s)
         ELSE Return([kind |-> "resources"], s, "resources/list")
    [] request.method = "resources/templates/list" ->
         IF ~hasCapability(s, HttpSessionId, "resources")
         THEN Throw(METHOD_NOT_FOUND, s)
         ELSE Return([kind |-> "resourceTemplates"], s, "resources/templates/list")
    [] request.method = "resources/read" ->
         IF ~hasCapability(s, HttpSessionId, "resources")
         THEN Throw(METHOD_NOT_FOUND, s)
         ELSE readResource(request, s)
    [] request.method = "prompts/list" ->
         IF ~hasCapability(s, HttpSessionId, "prompts")
         THEN Throw(METHOD_NOT_FOUND, s)
         ELSE Return([kind |-> "prompts"], s, "prompts/list")
    [] request.method = "prompts/get" ->
         IF ~hasCapability(s, HttpSessionId, "prompts")
         THEN Throw(METHOD_NOT_FOUND, s)
         ELSE getPrompt(request, s)
    [] OTHER -> Throw(METHOD_NOT_FOUND, s)

sendResult(id, result) ==
  [id |-> id, hasResult |-> TRUE, hasError |-> FALSE, code |-> 0, result |-> result,
   status |-> 200]

\* every error envelope written with the id null
sendError_nullId(id, code) ==
  [id |-> "null", hasResult |-> FALSE, hasError |-> TRUE, code |-> code,
   result |-> [kind |-> "none"],
   status |-> IF code = METHOD_NOT_FOUND THEN 404 ELSE 400]

sendError(id, code) ==
  [id |-> id, hasResult |-> FALSE, hasError |-> TRUE, code |-> code,
   result |-> [kind |-> "none"],
   status |-> IF code = METHOD_NOT_FOUND THEN 404 ELSE 400]

\* a thrown value without a code leaves the handler and nothing is written
handleRequest_rethrow(request, s, t) ==
  IF ~request.body
  THEN [responses |-> <<sendError("null", PARSE_ERROR)>>, store |-> s, exec |-> "none"]
  ELSE IF request.jsonrpc # "2.0"
  THEN [responses |-> <<sendError(request.id, INVALID_REQUEST)>>, store |-> s, exec |-> "none"]
  ELSE IF request.method = "undef"
  THEN [responses |-> <<sendError(request.id, INVALID_REQUEST)>>, store |-> s, exec |-> "none"]
  ELSE LET r == routeRequest(request, s, t)
       IN IF ~r.thrown
          THEN [responses |-> <<sendResult(request.id, r.result)>>,
                store |-> r.store, exec |-> r.exec]
          ELSE IF r.code # 0
          THEN [responses |-> <<sendError(request.id, r.code)>>,
                store |-> r.store, exec |-> r.exec]
          ELSE [responses |-> <<>>, store |-> r.store, exec |-> r.exec]

\* handleRequest yields the envelopes written to res, the store and the operation executed
handleRequest(request, s, t) ==
  IF ~request.body
  THEN [responses |-> <<sendError("null", PARSE_ERROR)>>, store |-> s, exec |-> "none"]
  ELSE IF request.jsonrpc # "2.0"
  THEN [responses |-> <<sendError(request.id, INVALID_REQUEST)>>, store |-> s, exec |-> "none"]
  ELSE IF request.method = "undef"
  THEN [responses |-> <<sendError(request.id, INVALID_REQUEST)>>, store |-> s, exec |-> "none"]
  ELSE LET r == routeRequest(request, s, t)
       IN IF ~r.thrown
          THEN [responses |-> <<sendResult(request.id, r.result)>>,
                store |-> r.store, exec |-> r.exec]
          ELSE IF r.code # 0
          THEN [responses |-> <<sendError(request.id, r.code)>>,
                store |-> r.store, exec |-> r.exec]
          ELSE [responses |-> <<sendError(request.id, INTERNAL_ERROR)>>,
                store |-> r.store, exec |-> r.exec]

InitHttp ==
  /\ serverCapabilities = DefaultServerCapabilities
  /\ sessions = EmptyMap
  /\ streamSessions = EmptyMap
  /\ inFlight = NoneInFlight
  /\ now = 0
  /\ negClient = EmptyCaps
  /\ negOut = <<>>
  /\ negSwapped = <<>>
  /\ sseSessions = EmptyMap
  /\ cleanupInterval = TRUE
  /\ streamsOpened = 0
  /\ closeCount = [x \in StreamIds |-> 0]
  /\ closeEmitted = {}
  /\ lastOp = NoOp

\* POST /mcp served from the SessionManager of the streaming server
HttpRequest_sharedStore(request) ==
  LET h == handleRequest(request, streamSessions, now)
  IN /\ streamSessions' = h.store
     /\ lastOp' = [op |-> "http", request |-> request, responses |-> h.responses,
                   exec |-> h.exec, before |-> Before(streamSessions, HttpSessionId)]
     /\ UNCHANGED <<serverCapabilities, inFlight, sessions, now, negVars, sseVars>>

HttpRequest(request) ==
  LET h == handleRequest(request, sessions, now)
  IN /\ sessions' = h.store
     /\ lastOp' = [op |-> "http", request |-> request, responses |-> h.responses,
                   exec |-> h.exec, before |-> Before(sessions, HttpSessionId)]
     /\ UNCHANGED <<serverCapabilities, streamSessions, inFlight, now, negVars, sseVars>>

NextHttp ==
  \/ \E request \in Requests : HttpRequest(request)
  \/ StoreTick

SpecHttp == InitHttp /\ [][NextHttp]_vars

(***************************************************************************)
(* SSETransportManager: the streaming sessions of GET /sse and             *)
(* POST /messages.  Time is counted in minutes.  An SSESession is held by  *)
(* its id, capabilities and lastActivity; transport, server and createdAt  *)
(* are written once by createSession and the transport is represented by   *)
(* closeCount and closeEmitted.                                            *)
(***************************************************************************)
SESSION_NOT_FOUND == -32000

\* staleTimeout of the cleanup interval: 5 * 60 * 1000 ms
StaleTimeout == 5

\* the transport closed without looking the session up first
sseRemoveSession_closeAlways(s, sessionId, rejects) ==
  [sessions |-> Drop(s, sessionId),
   closed |-> {sessionId},
   logged |-> IF sessionId \in rejects THEN 1 ELSE 0,
   raised |-> FALSE]

\* the rejection of transport.close() reaching the caller before the map entry is deleted
sseRemoveSession_propagate(s, sessionId, rejects) ==
  IF sessionId \in DOMAIN s
  THEN IF sessionId \in rejects
       THEN [sessions |-> s, closed |-> {sessionId}, logged |-> 0, raised |-> TRUE]
       ELSE [sessions |-> Drop(s, sessionId), closed |-> {sessionId},
             logged |-> 0, raised |-> FALSE]
  ELSE [sessions |-> s, closed |-> {}, logged |-> 0, raised |-> FALSE]

\* removeSession: rejects is the set of streams whose transport.close() promise rejects.
\* Yields the new map, the streams whose transport was closed, the number of errors
\* logged by the catch handler, and whether an error reached the caller.
sseRemoveSession(s, sessionId, rejects) ==
  IF sessionId \in DOMAIN s
  THEN [sessions |-> Drop(s, sessionId),
        closed |-> {sessionId},
        logged |-> IF sessionId \in rejects THEN 1 ELSE 0,
        raised |-> FALSE]
  ELSE [sessions |-> s, closed |-> {}, logged |-> 0, raised |-> FALSE]

sseGetActiveSessions(s) == {s[x] : x \in DOMAIN s}

\* the comparison taken as "at least the timeout"
StaleSessions_atTimeout(s, t) == {x \in DOMAIN s : t - s[x].lastActivity >= StaleTimeout}

\* the sessions the interval callback finds stale at time t
StaleSessions(s, t) == {x \in DOMAIN s : t - s[x].lastActivity > StaleTimeout}

\* removeSession applied to every id of ids, as the loops of the interval callback
\* and of destroy() do
RECURSIVE sseRemoveAll(_, _, _)
sseRemoveAll(s, ids, rejects) ==
  IF ids = {}
  THEN [sessions |-> s, closed |-> {}, logged |-> 0, raised |-> FALSE]
  ELSE LET x == CHOOSE y \in ids : TRUE
           r == sseRemoveSession(s, x, rejects)
           rest == sseRemoveAll(r.sessions, ids \ {x}, rejects)
       IN IF r.raised
          THEN r
          ELSE [sessions |-> rest.sessions,
                closed |-> r.closed \cup rest.closed,
                logged |-> r.logged + rest.logged,
                raised |-> rest.raised]

Closed(cc, ids) == [x \in StreamIds |-> IF x \in ids THEN cc[x] + 1 ELSE cc[x]]

InitSse ==
  /\ serverCapabilities = DefaultServerCapabilities
  /\ sessions = EmptyMap
  /\ streamSessions = EmptyMap
  /\ inFlight = NoneInFlight
  /\ now = 0
  /\ negClient = EmptyCaps
  /\ negOut = <<>>
  /\ negSwapped = <<>>
  /\ sseSessions = EmptyMap
  /\ cleanupInterval = TRUE
  /\ streamsOpened = 0
  /\ closeCount = [x \in StreamIds |-> 0]
  /\ closeEmitted = {}
  /\ lastOp = NoOp

\* the id of a removed session handed out again
SseCreateSession_reuseId(connects) ==
  /\ streamsOpened < MaxSessions
  /\ LET id == CHOOSE x \in 1..(streamsOpened + 1) :
                 /\ x \notin DOMAIN sseSessions
                 /\ \A y \in 1..(x - 1) : y \in DOMAIN sseSessions
     IN /\ streamsOpened' = IF id > streamsOpened THEN id ELSE streamsOpened
        /\ sseSessions' = Put(sseSessions, id,
                              [id |-> id, capabilities |-> EmptyMap, lastActivity |-> now])
        /\ lastOp' = [op |-> "sseCreateSession", id |-> id, raised |-> ~connects]
  /\ UNCHANGED <<serverCapabilities, streamSessions, inFlight, sessions, now, negVars,
                 cleanupInterval, closeCount, closeEmitted>>

\* createSession: the transport is constructed with a fresh session id, the session is
\* stored, the close callback is registered, then server.connect either resolves or rejects
SseCreateSession(connects) ==
  /\ streamsOpened < MaxSessions
  /\ LET id == streamsOpened + 1
     IN /\ streamsOpened' = id
        /\ sseSessions' = Put(sseSessions, id,
                              [id |-> id, capabilities |-> EmptyMap, lastActivity |-> now])
        /\ lastOp' = [op |-> "sseCreateSession", id |-> id, raised |-> ~connects]
  /\ UNCHANGED <<serverCapabilities, streamSessions, inFlight, sessions, now, negVars,
                 cleanupInterval, closeCount, closeEmitted>>

\* the envelope handleMessage writes in its catch clause: body?.id || null
sseInternalError(bodyId) ==
  [id |-> IF bodyId = "undef" THEN "null" ELSE bodyId,
   hasResult |-> FALSE, hasError |-> TRUE, code |-> INTERNAL_ERROR,
   result |-> [kind |-> "none"], status |-> 500]

\* what handleMessage writes to res after transport.handlePostMessage: nothing when
\* the transport handled the payload (it answers itself) or when it raised after the
\* response headers were sent, the -32603 envelope when it raised before that
sseResponses(bodyId, outcome) ==
  IF outcome = "throws" THEN <<sseInternalError(bodyId)>> ELSE <<>>

\* the payload handed to the transport without looking the session up first
SseHandleMessage_noLookup(sessionId, bodyId, outcome) ==
  /\ sseSessions' = [x \in DOMAIN sseSessions |->
                       IF x = sessionId
                       THEN [sseSessions[x] EXCEPT !.lastActivity = now]
                       ELSE sseSessions[x]]
  /\ lastOp' = [op |-> "handleMessage", id |-> sessionId,
                tracked |-> sessionId \in DOMAIN sseSessions,
                forwarded |-> TRUE, raised |-> FALSE, outcome |-> outcome,
                logged |-> outcome # "handled", activityAtForward |-> now,
                responses |-> sseResponses(bodyId, outcome)]
  /\ UNCHANGED <<serverCapabilities, streamSessions, inFlight, sessions, now, negVars,
                 cleanupInterval, streamsOpened, closeCount, closeEmitted>>

\* the failure of the transport's inbound handler left uncaught
SseHandleMessage_uncaught(sessionId, bodyId, outcome) ==
  /\ IF sessionId \notin DOMAIN sseSessions
     THEN /\ lastOp' = [op |-> "handleMessage", id |-> sessionId, tracked |-> FALSE,
                        forwarded |-> FALSE, raised |-> FALSE, outcome |-> "none",
                        logged |-> FALSE, activityAtForward |-> 0,
                        responses |-> <<[id |-> "null", hasResult |-> FALSE, hasError |-> TRUE,
                                         code |-> SESSION_NOT_FOUND,
                                         result |-> [kind |-> "none"], status |-> 404]>>]
          /\ UNCHANGED sseSessions
     ELSE /\ sseSessions' = [sseSessions EXCEPT ![sessionId].lastActivity = now]
          /\ lastOp' = [op |-> "handleMessage", id |-> sessionId, tracked |-> TRUE,
                        forwarded |-> TRUE, raised |-> outcome # "handled",
                        outcome |-> outcome, logged |-> FALSE,
                        activityAtForward |-> now,
                        responses |-> <<>>]
  /\ UNCHANGED <<serverCapabilities, streamSessions, inFlight, sessions, now, negVars,
                 cleanupInterval, streamsOpened, closeCount, closeEmitted>>

\* handleMessage: outcome is what transport.handlePostMessage does with the payload:
\* it handles it, raises before the response headers are sent, or raises after that.
\* lastActivity is assigned before the payload is handed over, so the transport is
\* called with the session's lastActivity at activityAtForward.
SseHandleMessage(sessionId, bodyId, outcome) ==
  /\ IF sessionId \notin DOMAIN sseSessions
     THEN /\ lastOp' = [op |-> "handleMessage", id |-> sessionId, tracked |-> FALSE,
                        forwarded |-> FALSE, raised |-> FALSE, outcome |-> "none",
                        logged |-> FALSE, activityAtForward |-> 0,
                        responses |-> <<[id |-> "null", hasResult |-> FALSE, hasError |-> TRUE,
                                         code |-> SESSION_NOT_FOUND,
                                         result |-> [kind |-> "none"], status |-> 404]>>]
          /\ UNCHANGED sseSessions
     ELSE /\ sseSessions' = [sseSessions EXCEPT ![sessionId].lastActivity = now]
          /\ lastOp' = [op |-> "handleMessage", id |-> sessionId, tracked |-> TRUE,
                        forwarded |-> TRUE, raised |-> FALSE, outcome |-> outcome,
                        logged |-> outcome # "handled", activityAtForward |-> now,
                        responses |-> sseResponses(bodyId, outcome)]
  /\ UNCHANGED <<serverCapabilities, streamSessions, inFlight, sessions, now, negVars,
                 cleanupInterval, streamsOpened, closeCount, closeEmitted>>

\* what transport.handlePostMessage may do with a payload
Outcomes == {"handled", "throws", "throwsHeadersSent"}

\* req.query.sessionId is absent or empty
NoSessionId == 0

\* the POST /messages route of startHttpServer: a request without a sessionId query
\* parameter is answered by the route itself, any other is handed to handleMessage
PostMessages(sessionId, bodyId, outcome) ==
  IF sessionId = NoSessionId
  THEN /\ lastOp' = [op |-> "postMessages", id |-> sessionId, tracked |-> FALSE,
                     forwarded |-> FALSE, raised |-> FALSE, outcome |-> "none",
                     logged |-> FALSE, activityAtForward |-> 0,
                     responses |-> <<[id |-> "null", hasResult |-> FALSE, hasError |-> TRUE,
                                      code |-> INVALID_REQUEST,
                                      result |-> [kind |-> "none"], status |-> 400]>>]
       /\ UNCHANGED <<serverCapabilities, streamSessions, inFlight, sessions, now, negVars, sseVars>>
  ELSE SseHandleMessage(sessionId, bodyId, outcome)

\* the callback registered with res.on('close'): the event is emitted once per response,
\* when the peer disconnects or after the response was ended
SseResClose(id, rejects) ==
  /\ id <= streamsOpened
  /\ id \notin closeEmitted
  /\ closeEmitted' = closeEmitted \cup {id}
  /\ LET r == sseRemoveSession(sseSessions, id, rejects)
     IN /\ sseSessions' = r.sessions
        /\ closeCount' = Closed(closeCount, r.closed)
        /\ lastOp' = [op |-> "resClose", id |-> id, tracked |-> id \in DOMAIN sseSessions,
                      closed |-> r.closed, logged |-> r.logged, raised |-> r.raised]
  /\ UNCHANGED <<serverCapabilities, streamSessions, inFlight, sessions, now, negVars, cleanupInterval, streamsOpened>>

\* an explicit removeSession call
SseRemoveSession(id, rejects) ==
  /\ LET r == sseRemoveSession(sseSessions, id, rejects)
     IN /\ sseSessions' = r.sessions
        /\ closeCount' = Closed(closeCount, r.closed)
        /\ lastOp' = [op |-> "sseRemoveSession", id |-> id,
                      tracked |-> id \in DOMAIN sseSessions,
                      closed |-> r.closed, logged |-> r.logged, raised |-> r.raised]
  /\ UNCHANGED <<serverCapabilities, streamSessions, inFlight, sessions, now, negVars,
                 cleanupInterval, streamsOpened, closeEmitted>>

\* one run of the interval callback
SseSweep(rejects) ==
  /\ cleanupInterval
  /\ LET r == sseRemoveAll(sseSessions, StaleSessions(sseSessions, now), rejects)
     IN /\ sseSessions' = r.sessions
        /\ closeCount' = Closed(closeCount, r.closed)
        /\ lastOp' = [op |-> "sweep", closed |-> r.closed, logged |-> r.logged,
                      raised |-> r.raised, rejects |-> rejects]
  /\ UNCHANGED <<serverCapabilities, streamSessions, inFlight, sessions, now, negVars,
                 cleanupInterval, streamsOpened, closeEmitted>>

\* destroy() that leaves the interval timer running
SseDestroy_keepTimer(rejects) ==
  /\ UNCHANGED cleanupInterval
  /\ LET r == sseRemoveAll(sseSessions, DOMAIN sseSessions, rejects)
     IN /\ sseSessions' = r.sessions
        /\ closeCount' = Closed(closeCount, r.closed)
        /\ lastOp' = [op |-> "destroy", closed |-> r.closed, logged |-> r.logged,
                      raised |-> r.raised, timerWasSet |-> cleanupInterval]
  /\ UNCHANGED <<serverCapabilities, streamSessions, inFlight, sessions, now, negVars, streamsOpened, closeEmitted>>

\* destroy(): clearInterval when the timer is set, then removeSession for every key
SseDestroy(rejects) ==
  /\ cleanupInterval' = FALSE
  /\ LET r == sseRemoveAll(sseSessions, DOMAIN sseSessions, rejects)
     IN /\ sseSessions' = r.sessions
        /\ closeCount' = Closed(closeCount, r.closed)
        /\ lastOp' = [op |-> "destroy", closed |-> r.closed, logged |-> r.logged,
                      raised |-> r.raised, timerWasSet |-> cleanupInterval]
  /\ UNCHANGED <<serverCapabilities, streamSessions, inFlight, sessions, now, negVars, streamsOpened, closeEmitted>>

Tick ==
  /\ now < MaxTime
  /\ now' = now + 1
  /\ lastOp' = [op |-> "tick"]
  /\ UNCHANGED <<serverCapabilities, streamSessions, inFlight, sessions, negVars, sseVars>>

NextSse ==
  \/ \E connects \in BOOLEAN : SseCreateSession(connects)
  \/ \E id \in StreamIds, bodyId \in {"id1", "undef"}, outcome \in Outcomes :
       SseHandleMessage(id, bodyId, outcome)
  \/ \E id \in StreamIds \cup {NoSessionId}, bodyId \in {"id1", "undef"},
        outcome \in Outcomes :
       PostMessages(id, bodyId, outcome)
  \/ \E id \in StreamIds : \E rejects \in SUBSET {id} : SseResClose(id, rejects)
  \/ \E id \in StreamIds : \E rejects \in SUBSET {id} : SseRemoveSession(id, rejects)
  \/ \E rejects \in SUBSET StaleSessions(sseSessions, now) : SseSweep(rejects)
  \/ \E rejects \in SUBSET DOMAIN sseSessions : SseDestroy(rejects)
  \/ Tick

SpecSse == InitSse /\ [][NextSse]_vars

(***************************************************************************)
(* handleMessage as the two steps its await makes of it: the part up to    *)
(* the call of transport.handlePostMessage, and the part that runs when    *)
(* the promise of that call settles.  The interval callback, like every    *)
(* other callback of the process, may run in between.                      *)
(***************************************************************************)
\* handleMessage from its entry to the await: an untracked id is answered at once, a
\* tracked session has its lastActivity assigned and the payload handed over
SseHandleMessageBegin(sessionId) ==
  /\ sessionId \in DOMAIN sseSessions => inFlight[sessionId] < MaxInFlight
  /\ IF sessionId \notin DOMAIN sseSessions
     THEN /\ lastOp' = [op |-> "handleMessageBegin", id |-> sessionId, tracked |-> FALSE,
                        forwarded |-> FALSE, activityAtForward |-> 0,
                        responses |-> <<[id |-> "null", hasResult |-> FALSE, hasError |-> TRUE,
                                         code |-> SESSION_NOT_FOUND,
                                         result |-> [kind |-> "none"], status |-> 404]>>]
          /\ UNCHANGED <<sseSessions, inFlight>>
     ELSE /\ sseSessions' = [sseSessions EXCEPT ![sessionId].lastActivity = now]
          /\ inFlight' = [inFlight EXCEPT ![sessionId] = @ + 1]
          /\ lastOp' = [op |-> "handleMessageBegin", id |-> sessionId, tracked |-> TRUE,
                        forwarded |-> TRUE, activityAtForward |-> now, responses |-> <<>>]
  /\ UNCHANGED <<serverCapabilities, streamSessions, sessions, now, negVars,
                 cleanupInterval, streamsOpened, closeCount, closeEmitted>>

\* handleMessage from the settling of transport.handlePostMessage to its return; the
\* session map is not consulted again
SseHandleMessageEnd(sessionId, bodyId, outcome) ==
  /\ inFlight[sessionId] > 0
  /\ inFlight' = [inFlight EXCEPT ![sessionId] = @ - 1]
  /\ lastOp' = [op |-> "handleMessageEnd", id |-> sessionId,
                tracked |-> sessionId \in DOMAIN sseSessions,
                outcome |-> outcome, logged |-> outcome # "handled",
                responses |-> sseResponses(bodyId, outcome)]
  /\ UNCHANGED <<serverCapabilities, streamSessions, sessions, now, negVars, sseVars>>

NextInFlight ==
  \/ \E connects \in BOOLEAN : SseCreateSession(connects)
  \/ \E id \in StreamIds : SseHandleMessageBegin(id)
  \/ \E id \in StreamIds, bodyId \in {"id1", "undef"}, outcome \in Outcomes :
       SseHandleMessageEnd(id, bodyId, outcome)
  \/ \E rejects \in SUBSET StaleSessions(sseSessions, now) : SseSweep(rejects)
  \/ Tick

SpecInFlight == InitSse /\ [][NextInFlight]_vars

(***************************************************************************)
(* Both endpoints of one server process at one instant: the requests of    *)
(* POST /mcp and the operations of the streaming transport manager.        *)
(***************************************************************************)
NextServer ==
  \/ \E request \in Requests : HttpRequest(request)
  \/ streamsOpened < MaxServerStreams /\ \E connects \in BOOLEAN : SseCreateSession(connects)
  \/ \E id \in StreamIds, bodyId \in {"id1", "undef"}, outcome \in Outcomes :
       SseHandleMessage(id, bodyId, outcome)
  \/ \E id \in StreamIds : \E rejects \in SUBSET {id} : SseResClose(id, rejects)
  \/ \E id \in StreamIds : \E rejects \in SUBSET {id} : SseRemoveSession(id, rejects)
  \/ \E rejects \in SUBSET StaleSessions(sseSessions, now) : SseSweep(rejects)
  \/ \E rejects \in SUBSET DOMAIN sseSessions : SseDestroy(rejects)

SpecServer == InitSse /\ [][NextServer]_vars

\* the step is a well-formed request for a capability-gated method on POST /mcp
GatedHttpStep(op) ==
  /\ op.op = "http"
  /\ op.request.body /\ op.request.jsonrpc = "2.0"
  /\ op.request.method \in GatedMethods

\* the envelopes written are exactly one error envelope with a code from codes
OnlyError(responses, codes) ==
  /\ Len(responses) = 1
  /\ responses[1].hasError /\ ~responses[1].hasResult
  /\ responses[1].code \in codes

\* C1: a capability-gated method on a session that exists without the required
\* capability is answered with the error code -32601, the operation is not executed and
\* no state changes; tools/list on a session with tools negotiated is answered with a result.
C1_CapabilityGate ==
  [][GatedHttpStep(lastOp') =>
       /\ (HttpSessionId \in DOMAIN sessions
             /\ ~hasCapability(sessions, HttpSessionId,
                               RequiredCapability(lastOp'.request.method)))
            => /\ OnlyError(lastOp'.responses, {METHOD_NOT_FOUND})
               /\ lastOp'.responses[1].id = lastOp'.request.id
               /\ lastOp'.exec = "none"
               /\ sessions' = sessions
               /\ UNCHANGED <<serverCapabilities, streamSessions, inFlight, now, sseVars>>
       /\ (lastOp'.request.method = "tools/list"
             /\ hasCapability(sessions, HttpSessionId, "tools"))
            => /\ Len(lastOp'.responses) = 1
               /\ lastOp'.responses[1].hasResult /\ ~lastOp'.responses[1].hasError
               /\ lastOp'.exec = "tools/list"]_vars

\* after initialize with {tools:{}} only, resources/list has been answered with -32601
C1_Witness ==
  /\ lastOp.op = "http"
  /\ lastOp.request.method = "resources/list"
  /\ HttpSessionId \in DOMAIN sessions
  /\ sessions[HttpSessionId].clientCapabilities = CapsOf({"tools"}, NoExp)
  /\ hasCapability(sessions, HttpSessionId, "tools")
  /\ lastOp.responses[1].code = METHOD_NOT_FOUND

C9_IdleSweep ==
  [][lastOp'.op = "sweep" =>
       \A id \in DOMAIN sseSessions :
         /\ (now - sseSessions[id].lastActivity > StaleTimeout)
              => /\ id \notin DOMAIN sseSessions'
                 /\ \A x \in sseGetActiveSessions(sseSessions') : x.id # id
         /\ (now - sseSessions[id].lastActivity <= StaleTimeout)
              => /\ id \in DOMAIN sseSessions'
                 /\ sseSessions'[id] = sseSessions[id]
                 /\ sseSessions[id] \in sseGetActiveSessions(sseSessions')]_vars

\* a sweep that removed one session and kept one that was idle for exactly the timeout
C9_Witness ==
  /\ lastOp.op = "sweep"
  /\ lastOp.closed = {1}
  /\ DOMAIN sseSessions = {2}
  /\ now - sseSessions[2].lastActivity = StaleTimeout

\* C10: the transport of a streaming session is closed exactly once when the session is
\* removed and never while it is tracked, whatever the order of close callbacks, sweeps,
\* removeSession calls and destroy(); removing an untracked id changes nothing, and no
\* removal raises an error to its caller.
C10_CloseExactlyOnce ==
  [][/\ \A id \in StreamIds :
          /\ closeCount'[id] <= 1
          /\ (id \in DOMAIN sseSessions') => closeCount'[id] = 0
          /\ (id <= streamsOpened' /\ id \notin DOMAIN sseSessions') => closeCount'[id] = 1
     /\ (lastOp'.op \in {"resClose", "sseRemoveSession"} /\ lastOp'.id \notin DOMAIN sseSessions)
          => (sseSessions' = sseSessions /\ closeCount' = closeCount)
     /\ (lastOp'.op \in {"resClose", "sseRemoveSession", "sweep", "destroy"})
          => ~lastOp'.raised]_vars

\* the close callback of stream 1 runs after the session was already removed
C10_Witness ==
  /\ lastOp.op = "resClose"
  /\ lastOp.id = 1
  /\ ~lastOp.tracked
  /\ closeCount[1] = 1
  /\ 2 \in DOMAIN sseSessions

(***************************************************************************)
(* EnhancedMCPServer.setupHandlers: the request handlers the streaming     *)
(* transport dispatches to.  They use the SessionManager of the streaming  *)
(* EnhancedMCPServer, under the id extra.sessionId or 'default'.  A handler *)
(* returns a result or throws; the envelope is written by the protocol     *)
(* layer the handlers are registered with.                                 *)
(***************************************************************************)
\* extra?.sessionId || 'default'
StreamSessionIds == {"default", "sse-1"}

\* the methods setupHandlers registers a handler for
StreamMethods ==
  {"initialize", "tools/list", "tools/call", "resources/list", "resources/read",
   "prompts/list", "prompts/get"}

\* client capability sets sent with initialize on the streaming transport
StreamCaps ==
  {CapsOf({"tools"}, NoExp), CapsOf({"resources", "prompts"}, NoExp),
   CapsOf({"tools", "resources", "prompts"}, NoExp)}

\* the requests that reach a handler: they carry the params of their method
StreamRequests ==
  {r \in WellFormedRequests :
     /\ r.method \in StreamMethods
     /\ r.id = "id1"
     /\ r.params.kind # "undef"
     /\ (r.params.kind = "tool" => r.params.arguments = "obj")
     /\ (r.params.kind = "init" => (r.params.hasCaps /\ r.params.capabilities \in StreamCaps))}

\* the CallTool handler after the capability check
streamCallTool(request, s) ==
  IF request.params.name = "echo"
  THEN IF request.params.arguments = "null"
       THEN Return([kind |-> "content", text |-> "Error executing tool",
                    isError |-> TRUE], s, "none")
       ELSE Return([kind |-> "content", text |-> echoTool(request.params.message).text,
                    isError |-> FALSE], s, "tool:echo")
  ELSE Return([kind |-> "content", text |-> "Error executing tool",
               isError |-> TRUE], s, "none")

\* the handlers of setupHandlers; new Error(...) is a thrown value without a code
streamHandler(request, s, sessionId, t) ==
  CASE request.method = "initialize" ->
         LET s1 == createSession(s, sessionId, "test-client", "2025-06-18",
                                 request.params.capabilities, t)
         IN Return([kind |-> "initialize",
                    capabilities |-> getSessionCapabilities(s1, sessionId)],
                   s1, "createSession")
    [] request.method = "tools/list" ->
         IF ~hasCapability(s, sessionId, "tools")
         THEN Throw(0, s)
         ELSE Return([kind |-> "tools"], s, "tools/list")
    [] request.method = "tools/call" ->
         IF ~hasCapability(s, sessionId, "tools")
         THEN Throw(0, s)
         ELSE streamCallTool(request, s)
    [] request.method = "resources/list" ->
         IF ~hasCapability(s, sessionId, "resources")
         THEN Throw(0, s)
         ELSE Return([kind |-> "resources"], s, "resources/list")
    [] request.method = "resources/read" ->
         IF ~hasCapability(s, sessionId, "resources")
         THEN Throw(0, s)
         ELSE IF request.params.uri \in {"config://sample", "text://welcome"}
              THEN Return([kind |-> "contents", uri |-> request.params.uri], s,
                          "resources/read")
              ELSE Throw(0, s)
    [] request.method = "prompts/list" ->
         IF ~hasCapability(s, sessionId, "prompts")
         THEN Throw(0, s)
         ELSE Return([kind |-> "prompts"], s, "prompts/list")
    [] request.method = "prompts/get" ->
         IF ~hasCapability(s, sessionId, "prompts")
         THEN Throw(0, s)
         ELSE IF request.params.name \in {"calculate", "query"}
              THEN Return([kind |-> "messages", name |-> request.params.name], s,
                          "prompts/get")
              ELSE Throw(0, s)

\* one request dispatched to its handler
StreamRequest(sessionId, request) ==
  LET r == streamHandler(request, streamSessions, sessionId, now)
  IN /\ streamSessions' = r.store
     /\ lastOp' = [op |-> "stream", sessionId |-> sessionId, request |-> request,
                   thrown |-> r.thrown, code |-> r.code, result |-> r.result,
                   exec |-> r.exec, before |-> Before(streamSessions, sessionId)]
     /\ UNCHANGED <<serverCapabilities, inFlight, sessions, now, negVars, sseVars>>

\* the requests on POST /mcp that carry an id and reach the router
RoutedRequests ==
  {r \in WellFormedRequests : r.id = "id1"}

\* both EnhancedMCPServer instances of one process at work: the one behind POST /mcp
\* and the one the streaming transport dispatches to
NextDispatch ==
  \/ \E request \in RoutedRequests : HttpRequest(request)
  \/ \E sessionId \in StreamSessionIds, request \in StreamRequests :
       StreamRequest(sessionId, request)

SpecDispatch == InitHttp /\ [][NextDispatch]_vars

(***************************************************************************)
(* initialize on both transports, over a SessionManager constructed with   *)
(* any of the server capability sets: the handler calls createSession and  *)
(* answers with getSessionCapabilities of the session it created.          *)
(***************************************************************************)
\* initialize requests: params.capabilities is one of the client sets, or absent
InitializeRequests ==
  {[body |-> TRUE, jsonrpc |-> "2.0", id |-> "id1", method |-> "initialize",
    params |-> [kind |-> "init", hasCaps |-> TRUE, capabilities |-> c]] :
     c \in StoreClientCaps}
    \cup {[body |-> TRUE, jsonrpc |-> "2.0", id |-> "id1", method |-> "initialize",
           params |-> [kind |-> "init", hasCaps |-> FALSE, capabilities |-> EmptyCaps]]}

NextInitialize ==
  \/ \E request \in InitializeRequests : HttpRequest(request)
  \/ \E sessionId \in StreamSessionIds, request \in InitializeRequests :
       StreamRequest(sessionId, request)

SpecInitialize == InitStore /\ [][NextInitialize]_vars

(***************************************************************************)
(* The streaming endpoints end to end: a message posted for a tracked      *)
(* session is handed by handleMessage to the transport, which dispatches   *)
(* it to the handler registered by setupHandlers.  The handler looks its   *)
(* session up in the SessionManager of the streaming EnhancedMCPServer,    *)
(* under the session id of the transport when the protocol layer passes    *)
(* it in extra, and under 'default' when it does not.                      *)
(***************************************************************************)
\* transport.sessionId of a stream, as a key of the SessionManager
StreamKey(id) ==
  CASE id = 1 -> "sse-1"
    [] id = 2 -> "sse-2"
    [] OTHER -> "sse-3"

\* extra?.sessionId || 'default'
HandlerKeys(id) == {StreamKey(id), "default"}

\* a request posted to /messages for a tracked session and dispatched to its handler
StreamMessage(id, key, request) ==
  /\ id \in DOMAIN sseSessions
  /\ sseSessions' = [sseSessions EXCEPT ![id].lastActivity = now]
  /\ LET r == streamHandler(request, streamSessions, key, now)
     IN /\ streamSessions' = r.store
        /\ lastOp' = [op |-> "streamMessage", id |-> id, sessionId |-> key,
                      request |-> request, thrown |-> r.thrown, code |-> r.code,
                      result |-> r.result, exec |-> r.exec,
                      before |-> Before(streamSessions, key)]
  /\ UNCHANGED <<serverCapabilities, inFlight, sessions, now, negVars,
                 cleanupInterval, streamsOpened, closeCount, closeEmitted>>

\* streams are opened, used and torn down, with the clock standing still
NextStreaming ==
  \/ streamsOpened < MaxServerStreams /\ \E connects \in BOOLEAN : SseCreateSession(connects)
  \/ \E id \in StreamIds : \E key \in HandlerKeys(id) : \E request \in StreamRequests :
       StreamMessage(id, key, request)
  \/ \E id \in StreamIds : \E rejects \in SUBSET {id} : SseResClose(id, rejects)
  \/ \E id \in StreamIds : \E rejects \in SUBSET {id} : SseRemoveSession(id, rejects)
  \/ \E rejects \in SUBSET DOMAIN sseSessions : SseDestroy(rejects)

SpecStreaming == InitSse /\ [][NextStreaming]_vars

(***************************************************************************)
(* tools.ts randomNumberTool.  Numbers are counted in halves (the number n *)
(* stands for n/2), Math.random() yields j/RandomSteps for some j below    *)
(* RandomSteps, and the value computed is counted in units of              *)
(* 1/(2 * RandomSteps).                                                    *)
(***************************************************************************)
\* min and max range over -MaxNum/2 .. MaxNum/2 in steps of one half
MaxNum == 3
\* the number of values Math.random() takes
RandomSteps == 4

Numbers == (0 - MaxNum)..MaxNum

\* units of the computed value per 1
ValueUnit == 2 * RandomSteps

\* Math.floor of a value counted in ValueUnit-ths
Floor(v) == (v \div ValueUnit) * ValueUnit

randomNumberTool(min, max, isInteger, j) ==
  IF min > max
  THEN [success |-> FALSE, hasContent |-> FALSE, value |-> 0, hasError |-> TRUE]
  ELSE LET randomNum == j * (max - min) + min * RandomSteps
       IN [success |-> TRUE, hasContent |-> TRUE,
           value |-> IF isInteger THEN Floor(randomNum) ELSE randomNum,
           hasError |-> FALSE]

RandomNumberCall(min, max, isInteger, j) ==
  /\ lastOp' = [op |-> "random_number", min |-> min, max |-> max,
                isInteger |-> isInteger, j |-> j,
                result |-> randomNumberTool(min, max, isInteger, j)]
  /\ UNCHANGED <<serverCapabilities, streamSessions, inFlight, sessions, now, negVars, sseVars>>

NextRandom ==
  \E min \in Numbers, max \in Numbers, isInteger \in BOOLEAN, j \in 0..(RandomSteps - 1) :
    RandomNumberCall(min, max, isInteger, j)

SpecRandom == InitHttp /\ [][NextRandom]_vars

(***************************************************************************)
(* The placeholder substitution of prompts/get, the same code in           *)
(* EnhancedHttpHandler.routeRequest and in the GetPrompt handler of        *)
(* EnhancedMCPServer.  A text is a sequence of tokens; a token is a piece  *)
(* of plain text, a placeholder "{{key}}", or the replacement pattern "$&" *)
(* of String.prototype.replace.  The arguments are the entries of the      *)
(* argument object in insertion order.                                     *)
(***************************************************************************)
\* the longest argument object sent
MaxArgs == 2

PromptTemplates ==
  [calculate |-> <<"Please calculate: ", "{{expression}}">>,
   query |-> <<"Question: ", "{{question}}", "Context: ", "{{context}}",
               "Please provide a detailed answer.">>]

ArgKeys == {"expression", "question", "context", "other"}

\* String(value) of the argument values sent
ArgValues == {<<"7">>, <<"$&">>, <<"{{context}}">>}

\* `{{${key}}}`
Placeholder(key) == "{{" \o key \o "}}"

\* the replacement string with its patterns expanded: $& is the matched substring
Expand(value, matched) ==
  [i \in 1..Len(value) |-> IF value[i] = "$&" THEN matched ELSE value[i]]

\* text.replace(pattern, value) with a string pattern: the first occurrence only
Replace(text, pattern, value) ==
  IF \E i \in 1..Len(text) : text[i] = pattern
  THEN LET i == CHOOSE x \in 1..Len(text) :
                  text[x] = pattern /\ \A y \in 1..(x - 1) : text[y] # pattern
       IN SubSeq(text, 1, i - 1) \o Expand(value, pattern) \o SubSeq(text, i + 1, Len(text))
  ELSE text

\* the loop over Object.entries(request.params.arguments)
RECURSIVE substitute(_, _)
substitute(text, args) ==
  IF args = <<>>
  THEN text
  ELSE substitute(Replace(text, Placeholder(args[1].key), args[1].value), Tail(args))

\* argument objects: entries with distinct keys
ArgObjects ==
  {a \in UNION {[1..n -> [key : ArgKeys, value : ArgValues]] : n \in 0..MaxArgs} :
     \A i, j \in 1..Len(a) : (i # j) => a[i].key # a[j].key}

GetPromptCall(name, args) ==
  /\ lastOp' = [op |-> "getPrompt", name |-> name, args |-> args,
                text |-> substitute(PromptTemplates[name], args)]
  /\ UNCHANGED <<serverCapabilities, streamSessions, inFlight, sessions, now, negVars, sseVars>>

NextPrompt ==
  \E name \in {"calculate", "query"}, args \in ArgObjects : GetPromptCall(name, args)

SpecPrompt == InitHttp /\ [][NextPrompt]_vars

\* the step is a request on POST /mcp that passes the envelope checks and is routed
RoutedHttpStep(op) ==
  /\ op.op = "http"
  /\ op.request.body /\ op.request.jsonrpc = "2.0"
  /\ op.request.method # "undef"

\* the envelope has exactly one of result and error
OneOfResultAndError(e) == e.hasResult # e.hasError

\* C11: a request on POST /mcp that carries a non-null id is answered with exactly one
\* envelope, holding a result or an error and not both, whatever the method, the params
\* and the session are; when the router raises a value without an error code the
\* envelope is an error with the code -32603.
C11_ExactlyOneEnvelope ==
  [][(lastOp'.op = "http" /\ lastOp'.request.id \notin {"null", "undef"}) =>
       /\ Len(lastOp'.responses) = 1
       /\ OneOfResultAndError(lastOp'.responses[1])
       /\ (RoutedHttpStep(lastOp')
             /\ routeRequest(lastOp'.request, sessions, now).thrown
             /\ routeRequest(lastOp'.request, sessions, now).code = 0)
            => OnlyError(lastOp'.responses, {INTERNAL_ERROR})]_vars

\* tools/call without params on a session with tools negotiated, answered with -32603
C11_Witness ==
  /\ lastOp.op = "http"
  /\ lastOp.request.method = "tools/call"
  /\ lastOp.request.params.kind = "undef"
  /\ lastOp.request.id = "id1"
  /\ "tools" \in lastOp.before.granted
  /\ Len(lastOp.responses) = 1
  /\ lastOp.responses[1].code = INTERNAL_ERROR

\* C12: every envelope written on POST /mcp carries the id member of the request it
\* answers as it was sent (an absent id stays absent; a request without a readable body
\* has no id and its envelope carries null), and holds exactly one of result and error.
C12_IdEchoedOneOfResultError ==
  [][lastOp'.op = "http" =>
       \A i \in 1..Len(lastOp'.responses) :
         /\ lastOp'.responses[i].id
              = (IF lastOp'.request.body THEN lastOp'.request.id ELSE "null")
         /\ OneOfResultAndError(lastOp'.responses[i])
         /\ lastOp'.responses[i].hasError <=> lastOp'.responses[i].code # 0]_vars

\* an unknown method sent with the id "id1" was answered with an error carrying "id1"
C12_Witness ==
  /\ lastOp.op = "http"
  /\ lastOp.request.method = "unknown/method"
  /\ lastOp.request.id = "id1"
  /\ Len(lastOp.responses) = 1
  /\ lastOp.responses[1].id = "id1"
  /\ lastOp.responses[1].hasError /\ ~lastOp.responses[1].hasResult

\* the step is a request on POST /mcp whose body was read and whose id is null or absent
NotificationStep(op) ==
  /\ op.op = "http"
  /\ op.request.body
  /\ op.request.id \in {"null", "undef"}

\* C13: a request on POST /mcp whose id is null or absent gets no response envelope,
\* whether its handling succeeds or fails.
C13_NotificationsUnanswered ==
  [][NotificationStep(lastOp') => lastOp'.responses = <<>>]_vars

\* C14: notifications/initialized on POST /mcp is never answered with an error
\* envelope, in any session state, and leaves the session store as it was.
C14_InitializedAccepted ==
  [][(RoutedHttpStep(lastOp') /\ lastOp'.request.method = "notifications/initialized") =>
       /\ \A i \in 1..Len(lastOp'.responses) : ~lastOp'.responses[i].hasError
       /\ sessions' = sessions]_vars

\* the step is a request on POST /mcp whose body was read and whose protocol tag is
\* missing or wrong or whose method is missing
BadEnvelopeStep(op) ==
  /\ op.op = "http"
  /\ op.request.body
  /\ (op.request.jsonrpc # "2.0" \/ op.request.method = "undef")

\* C15: a request whose protocol tag is missing or not "2.0", or whose method is
\* missing, is answered with one -32600 error envelope that carries the request's id,
\* or null when the request has no id; nothing is executed and the store is unchanged.
C15_EnvelopeValidationFirst ==
  [][BadEnvelopeStep(lastOp') =>
       /\ OnlyError(lastOp'.responses, {INVALID_REQUEST})
       /\ lastOp'.responses[1].id
            = (IF lastOp'.request.id = "undef" THEN "null" ELSE lastOp'.request.id)
       /\ lastOp'.exec = "none"
       /\ sessions' = sessions]_vars

\* the step is a tools/call with params on POST /mcp, on a session with tools negotiated
HttpToolCallStep(op) ==
  /\ RoutedHttpStep(op)
  /\ op.request.method = "tools/call"
  /\ op.request.params.kind = "tool"
  /\ "tools" \in op.before.granted

\* the step is a tools/call dispatched by the streaming transport, on a session with
\* tools negotiated
StreamToolCallStep(op) ==
  /\ op.op = "stream"
  /\ op.request.method = "tools/call"
  /\ "tools" \in op.before.granted

\* the tool named does not exist, or reading its arguments raises
ToolRaises(params) == params.name # "echo" \/ params.arguments = "null"

\* the tool named exists, runs and returns success: false
ToolFails(params) ==
  /\ params.name = "echo" /\ params.arguments = "obj"
  /\ ~echoTool(params.message).success

\* C16: with tools negotiated, a tools/call that names an unknown tool or whose tool
\* raises an exception gets a success envelope whose result carries isError: true, on
\* POST /mcp and in the handler of the streaming transport; it never gets an error.
C16_ToolExceptionIsFlaggedResult ==
  [][/\ (HttpToolCallStep(lastOp') /\ ToolRaises(lastOp'.request.params))
          => /\ Len(lastOp'.responses) = 1
             /\ lastOp'.responses[1].hasResult /\ ~lastOp'.responses[1].hasError
             /\ lastOp'.responses[1].result.kind = "content"
             /\ lastOp'.responses[1].result.isError
     /\ (StreamToolCallStep(lastOp') /\ ToolRaises(lastOp'.request.params))
          => /\ ~lastOp'.thrown
             /\ lastOp'.result.kind = "content"
             /\ lastOp'.result.isError]_vars

\* an unknown tool was called on POST /mcp after an initialize that negotiated tools,
\* and the streaming session 'default' has tools negotiated too
C16_Witness ==
  /\ HttpToolCallStep(lastOp)
  /\ lastOp.request.params.name = "no_such_tool"
  /\ lastOp.responses[1].hasResult
  /\ lastOp.responses[1].result.isError
  /\ hasCapability(streamSessions, "default", "tools")

\* C17: with tools negotiated, a tools/call whose tool returns success: false gets a
\* success envelope whose result is flagged as an error (isError set), on POST /mcp
\* and in the handler of the streaming transport.
C17_FailedToolIsFlagged ==
  [][/\ (HttpToolCallStep(lastOp') /\ ToolFails(lastOp'.request.params))
          => /\ Len(lastOp'.responses) = 1
             /\ lastOp'.responses[1].hasResult /\ ~lastOp'.responses[1].hasError
             /\ lastOp'.responses[1].result.isError
     /\ (StreamToolCallStep(lastOp') /\ ToolFails(lastOp'.request.params))
          => /\ ~lastOp'.thrown
             /\ lastOp'.result.isError]_vars

\* the step is a resources/read or prompts/get with params, with the capability of the
\* method negotiated, for a uri or a name that is not in the catalog
UnknownKeyLookup(op) ==
  /\ op.request.method \in {"resources/read", "prompts/get"}
  /\ RequiredCapability(op.request.method) \in op.before.granted
  /\ \/ op.request.params.kind = "uri"
        /\ op.request.params.uri \notin {"config://sample", "text://welcome"}
     \/ op.request.params.kind = "prompt"
        /\ op.request.params.name \notin {"calculate", "query"}

\* C18: with the capability negotiated, resources/read for a uri outside the catalog
\* and prompts/get for a name outside the catalog end in an error with the code -32602,
\* on POST /mcp and in the handlers of the streaming transport; never in a result.
C18_UnknownKeyIsInvalidParams ==
  [][/\ (RoutedHttpStep(lastOp') /\ UnknownKeyLookup(lastOp'))
          => OnlyError(lastOp'.responses, {INVALID_PARAMS})
     /\ (lastOp'.op = "stream" /\ UnknownKeyLookup(lastOp'))
          => (lastOp'.thrown /\ lastOp'.code = INVALID_PARAMS)]_vars

\* C19: handleMessage for a session id that is not tracked answers with one error
\* envelope of code -32000 (status 404, id null), raises nothing, hands the payload to
\* no transport, and creates or changes no session, transport or store record.
C19_UntrackedIsSessionNotFound ==
  [][(lastOp'.op = "handleMessage" /\ lastOp'.id \notin DOMAIN sseSessions) =>
       /\ OnlyError(lastOp'.responses, {SESSION_NOT_FOUND})
       /\ lastOp'.responses[1].status = 404
       /\ lastOp'.responses[1].id = "null"
       /\ ~lastOp'.raised
       /\ ~lastOp'.forwarded
       /\ sseSessions' = sseSessions
       /\ closeCount' = closeCount
       /\ streamsOpened' = streamsOpened
       /\ sessions' = sessions /\ streamSessions' = streamSessions]_vars

\* a message submitted for stream 1 after its session was removed, while stream 2 is
\* tracked, was answered with -32000
C19_Witness ==
  /\ lastOp.op = "handleMessage"
  /\ lastOp.id = 1
  /\ ~lastOp.tracked
  /\ closeCount[1] = 1
  /\ 2 \in DOMAIN sseSessions
  /\ lastOp.responses[1].code = SESSION_NOT_FOUND

\* C20: on POST /messages, a request without a session id and a request with a session
\* id that is not tracked are both answered with the error code -32000.
C20_MissingOrUnknownIsSessionNotFound ==
  [][(\/ lastOp'.op = "postMessages"
      \/ lastOp'.op = "handleMessage" /\ ~lastOp'.tracked) =>
       OnlyError(lastOp'.responses, {SESSION_NOT_FOUND})]_vars

\* C21: when createSession fails because the transport cannot be connected, the
\* failure reaches the caller and the manager tracks the same sessions as before.
C21_FailedCreateTracksNothing ==
  [][(lastOp'.op = "sseCreateSession" /\ lastOp'.raised) =>
       sseSessions' = sseSessions]_vars

\* C22: destroy() stops the interval timer and removes and closes every tracked
\* session, so that no session is active afterwards; once the timer is stopped it stays
\* stopped and the interval callback never runs again; destroy() with the timer
\* already stopped and nothing tracked changes nothing; destroy() raises no error.
C22_DestroyStopsAndEmpties ==
  [][/\ lastOp'.op = "destroy"
          => /\ sseSessions' = EmptyMap
             /\ sseGetActiveSessions(sseSessions') = {}
             /\ ~cleanupInterval'
             /\ ~lastOp'.raised
             /\ \A id \in DOMAIN sseSessions : closeCount'[id] = 1
     /\ ~cleanupInterval
          => (~cleanupInterval' /\ lastOp'.op # "sweep")
     /\ (lastOp'.op = "destroy" /\ ~cleanupInterval /\ sseSessions = EmptyMap)
          => UNCHANGED sseVars]_vars

\* destroy() called again after a destroy() that removed two sessions
C22_Witness ==
  /\ lastOp.op = "destroy"
  /\ ~lastOp.timerWasSet
  /\ lastOp.closed = {}
  /\ streamsOpened = 2
  /\ closeCount[1] = 1 /\ closeCount[2] = 1
  /\ closeEmitted = {}
  /\ sseSessions = EmptyMap

\* C24: a streaming session id that was removed is never tracked again: every message
\* submitted under it is answered with -32000 and forwarded nowhere, and a stream that
\* is opened later gets an id that was never used before.
C24_NoPathBackFromTerminated ==
  [][/\ \A id \in StreamIds :
          (id <= streamsOpened /\ id \notin DOMAIN sseSessions)
            => /\ id \notin DOMAIN sseSessions'
               /\ (lastOp'.op = "handleMessage" /\ lastOp'.id = id)
                    => /\ OnlyError(lastOp'.responses, {SESSION_NOT_FOUND})
                       /\ ~lastOp'.forwarded
     /\ (lastOp'.op = "sseCreateSession" /\ streamsOpened' # streamsOpened)
          => (lastOp'.id > streamsOpened /\ lastOp'.id \notin DOMAIN sseSessions)
     /\ streamsOpened' >= streamsOpened]_vars

\* stream 2 was opened after the session of stream 1 had been removed by the sweep or
\* by a removeSession call
C24_Witness ==
  /\ lastOp.op = "sseCreateSession"
  /\ lastOp.id = 2
  /\ 1 \notin DOMAIN sseSessions
  /\ closeCount[1] = 1
  /\ closeEmitted = {}
  /\ cleanupInterval
  /\ 2 \in DOMAIN sseSessions

\* C25: after a capability-gated request on POST /mcp for a session that exists, the
\* lastActivity of the session record is not earlier than the time of the request.
C25_RequestTouchesLastActivity ==
  [][(GatedHttpStep(lastOp') /\ HttpSessionId \in DOMAIN sessions) =>
       /\ HttpSessionId \in DOMAIN sessions'
       /\ sessions'[HttpSessionId].lastActivity >= now]_vars

\* the step is an initialize on POST /mcp that reaches createSession
HttpInitializeStep(op) ==
  /\ RoutedHttpStep(op)
  /\ op.request.method = "initialize"
  /\ op.request.params.kind = "init"

\* C26: on POST /mcp the session 'http-default' created by initialize stays in the
\* store with the same record, whatever requests other than initialize are handled
\* and however much time passes without a request; an initialize that succeeds leaves
\* the session in the store with the set negotiated from its capabilities.
C26_HttpSessionPersists ==
  [][/\ (HttpSessionId \in DOMAIN sessions /\ ~HttpInitializeStep(lastOp'))
          => /\ HttpSessionId \in DOMAIN sessions'
             /\ sessions'[HttpSessionId].negotiatedCapabilities
                  = sessions[HttpSessionId].negotiatedCapabilities
     /\ HttpInitializeStep(lastOp')
          => /\ HttpSessionId \in DOMAIN sessions'
             /\ sessions'[HttpSessionId].negotiatedCapabilities
                  = TableNegotiated(serverCapabilities, lastOp'.request.params.capabilities)
     /\ DOMAIN sessions' \subseteq {HttpSessionId}]_vars

\* the session negotiated with tools at time 0 is still there, idle, after the clock
\* has advanced
C26_Witness ==
  /\ lastOp.op = "tick"
  /\ HttpSessionId \in DOMAIN sessions
  /\ now - sessions[HttpSessionId].lastActivity >= 1
  /\ hasCapability(sessions, HttpSessionId, "tools")

\* the six requests of the documented test sequence that follow initialize
TestSequenceRequest(request) ==
  \/ request.method \in {"tools/list", "resources/list", "prompts/list"}
  \/ request.method = "tools/call"
       /\ request.params.kind = "tool"
       /\ request.params.name = "echo"
       /\ request.params.arguments = "obj"
       /\ request.params.message # "undef"
  \/ request.method = "resources/read"
       /\ request.params.kind = "uri"
       /\ request.params.uri = "text://welcome"
  \/ request.method = "prompts/get"
       /\ request.params.kind = "prompt"
       /\ request.params.name = "calculate"

\* C27: after initialize with empty client capabilities on POST /mcp, the tools/list,
\* tools/call, resources/list, resources/read, prompts/list and prompts/get requests
\* of the documented test sequence are each answered with a result, not an error.
C27_TestSequenceWorks ==
  [][(/\ GatedHttpStep(lastOp')
      /\ TestSequenceRequest(lastOp'.request)
      /\ HttpSessionId \in DOMAIN sessions
      /\ sessions[HttpSessionId].clientCapabilities = EmptyCaps) =>
       /\ Len(lastOp'.responses) = 1
       /\ lastOp'.responses[1].hasResult /\ ~lastOp'.responses[1].hasError]_vars

\* C23: when a streaming session has been torn down, the Session Store holds no record
\* for it: hasCapability is false for every capability under the session's id, the id
\* is not among the store's sessions, and once no streaming session is left the store
\* of the streaming server holds no record at all.
C23_StoreRecordDiesWithStream ==
  /\ \A id \in StreamIds :
       (id <= streamsOpened /\ id \notin DOMAIN sseSessions)
         => /\ StreamKey(id) \notin DOMAIN streamSessions
            /\ \A k \in CapKeys : ~hasCapability(streamSessions, StreamKey(id), k)
  /\ (streamsOpened > 0 /\ sseSessions = EmptyMap) => streamSessions = EmptyMap

\* C28: random_number with min greater than max returns success: false with an error
\* text and no number, whatever isInteger is; with min not greater than max it returns
\* success: true with a value between min and max, both included.
C28_RandomNumberInRange ==
  lastOp.op = "random_number" =>
    /\ (lastOp.min > lastOp.max)
         => /\ ~lastOp.result.success
            /\ lastOp.result.hasError
            /\ ~lastOp.result.hasContent
    /\ (lastOp.min <= lastOp.max)
         => /\ lastOp.result.success
            /\ lastOp.min * RandomSteps <= lastOp.result.value
            /\ lastOp.result.value <= lastOp.max * RandomSteps

\* the value supplied for key in the argument object, or none
Supplied(args, key) == {args[i].value : i \in {x \in 1..Len(args) : args[x].key = key}}

\* the template with every placeholder that has a supplied value replaced by that
\* value and every other token left as it is
RECURSIVE Substituted(_, _)
Substituted(text, args) ==
  IF text = <<>>
  THEN <<>>
  ELSE LET here == {k \in ArgKeys : Placeholder(k) = Head(text) /\ Supplied(args, k) # {}}
       IN (IF here = {}
           THEN <<Head(text)>>
           ELSE CHOOSE v \in Supplied(args, CHOOSE k \in here : TRUE) : TRUE)
          \o Substituted(Tail(text), args)

\* C29: the text returned by prompts/get is the template in which each {{key}}
\* placeholder with a supplied argument is replaced by the argument's value, each
\* placeholder without one is left untouched, and an argument without a placeholder
\* changes nothing.
C29_LenientSubstitution ==
  lastOp.op = "getPrompt" =>
    lastOp.text = Substituted(PromptTemplates[lastOp.name], lastOp.args)

\* C30: handleMessage for a tracked session sets the session's lastActivity to the
\* time of the call before it hands the payload to the session's transport, and
\* leaves every other session alone; a failure of the transport's handler is never
\* raised to the caller: it is logged and answered with one -32603 envelope (status
\* 500, the body's id or null), or, when the response headers were already sent,
\* logged with nothing written.
C30_HandleMessageTracked ==
  [][(lastOp'.op = "handleMessage" /\ lastOp'.id \in DOMAIN sseSessions) =>
       /\ DOMAIN sseSessions' = DOMAIN sseSessions
       /\ sseSessions'[lastOp'.id].lastActivity = now
       /\ \A x \in DOMAIN sseSessions \ {lastOp'.id} : sseSessions'[x] = sseSessions[x]
       /\ lastOp'.forwarded
       /\ lastOp'.activityAtForward = now
       /\ ~lastOp'.raised
       /\ (lastOp'.outcome = "handled")
            => (lastOp'.responses = <<>> /\ ~lastOp'.logged)
       /\ (lastOp'.outcome = "throws")
            => /\ OnlyError(lastOp'.responses, {INTERNAL_ERROR})
               /\ lastOp'.responses[1].status = 500
               /\ lastOp'.logged
       /\ (lastOp'.outcome = "throwsHeadersSent")
            => (lastOp'.responses = <<>> /\ lastOp'.logged)]_vars

\* the transport of stream 1 raised after the headers were sent, for a message that
\* arrived after the session had been idle, while stream 2 is tracked and still idle
C30_Witness ==
  /\ lastOp.op = "handleMessage"
  /\ lastOp.id = 1
  /\ lastOp.outcome = "throwsHeadersSent"
  /\ lastOp.responses = <<>>
  /\ 1 \in DOMAIN sseSessions /\ 2 \in DOMAIN sseSessions
  /\ now > 0
  /\ sseSessions[1].lastActivity = now
  /\ sseSessions[2].lastActivity < now

\* C31: within one run of the interval callback, a transport whose close() fails does
\* not stop the run: every session found stale is removed and its transport closed,
\* each failure is logged, and no error reaches the caller of the callback.
C31_SweepIsolation ==
  [][lastOp'.op = "sweep" =>
       LET stale == StaleSessions(sseSessions, now)
       IN /\ ~lastOp'.raised
          /\ DOMAIN sseSessions' = DOMAIN sseSessions \ stale
          /\ \A x \in DOMAIN sseSessions' : sseSessions'[x] = sseSessions[x]
          /\ lastOp'.closed = stale
          /\ closeCount' = Closed(closeCount, stale)
          /\ lastOp'.logged = Cardinality(lastOp'.rejects)]_vars

\* a run of the callback that found two stale sessions, the close() of one of them
\* failed, and both are gone
C31_Witness ==
  /\ lastOp.op = "sweep"
  /\ Cardinality(lastOp.closed) >= 2
  /\ lastOp.rejects # {}
  /\ lastOp.rejects # lastOp.closed
  /\ lastOp.rejects \subseteq lastOp.closed
  /\ lastOp.closed \cap DOMAIN sseSessions = {}
  /\ lastOp.logged = Cardinality(lastOp.rejects)
  /\ ~lastOp.raised

\* the capabilities object an initialize step answered with
ReportedCapabilities(op) ==
  IF op.op = "http" THEN op.responses[1].result.capabilities ELSE op.result.capabilities

\* the step is an initialize request with params, on POST /mcp or dispatched to the
\* streaming handler
InitializeStep(op) ==
  /\ op.op \in {"http", "stream"}
  /\ op.request.method = "initialize"
  /\ op.request.params.kind = "init"

\* the step answered with an initialize result
InitializeAnswered(op) ==
  IF op.op = "http"
  THEN /\ Len(op.responses) = 1
       /\ op.responses[1].hasResult
       /\ ~op.responses[1].hasError
       /\ op.responses[1].result.kind = "initialize"
  ELSE /\ ~op.thrown
       /\ op.result.kind = "initialize"

\* C32: initialize answers with a result whether or not a session existed, and the
\* capabilities object of the result holds tools, resources, prompts or logging
\* exactly when that capability was negotiated true for the session just created,
\* and an experimental key only when that key was negotiated true.
C32_InitializeReportsNegotiated ==
  [][InitializeStep(lastOp') =>
       LET store == IF lastOp'.op = "http" THEN sessions' ELSE streamSessions'
           id == IF lastOp'.op = "http" THEN HttpSessionId ELSE lastOp'.sessionId
       IN /\ InitializeAnswered(lastOp')
          /\ id \in DOMAIN store
          /\ LET n == store[id].negotiatedCapabilities
                 reported == ReportedCapabilities(lastOp')
             IN /\ reported.keys = {k \in {"tools", "resources", "prompts", "logging"} : n[k]}
                /\ reported.exp \subseteq n.experimental.keys]_vars

\* an initialize without a prior session, answered with one of the four keys and
\* one experimental key while the server advertises more
C32_Witness ==
  /\ InitializeStep(lastOp)
  /\ InitializeAnswered(lastOp)
  /\ ~lastOp.before.present
  /\ ReportedCapabilities(lastOp).keys = {"resources"}
  /\ ReportedCapabilities(lastOp).exp = {2}
  /\ Truthy(serverCapabilities.tools)

\* the step is a capability-gated request dispatched to a handler of setupHandlers
GatedStreamStep(op) ==
  /\ op.op = "stream"
  /\ op.request.method \in GatedMethods

\* C33: in the handlers of the streaming transport a tools, resources or prompts
\* request on a session without that capability raises an error that carries
\* -32601, before anything is executed and without a change to the store.
C33_StreamGateIsMethodNotFound ==
  [][(GatedStreamStep(lastOp')
        /\ ~hasCapability(streamSessions, lastOp'.sessionId,
                          RequiredCapability(lastOp'.request.method)))
       => /\ lastOp'.thrown
          /\ lastOp'.code = METHOD_NOT_FOUND
          /\ lastOp'.exec = "none"
          /\ streamSessions' = streamSessions]_vars

\* the step is a createSession call for id
CreatesRecord(op, id) == op.op = "createSession" /\ op.id = id

\* C34: after every operation of the store each record is consistent with the one
\* createSession call that produced it: its negotiated set is the negotiation of the
\* server set with the record's own client set, a createSession leaves the record
\* with the client set it was given and with no metadata, and afterwards only an
\* updateSessionMetadata call for that id changes the metadata (keeping the keys it
\* had), and nothing but a createSession changes the client or the negotiated set.
C34_RecordFromOneCreate ==
  [][\A id \in DOMAIN sessions' :
       LET new == sessions'[id]
       IN /\ new.negotiatedCapabilities
               = negotiateCapabilities(serverCapabilities, new.clientCapabilities)
          /\ CreatesRecord(lastOp', id)
               => /\ new.clientCapabilities = lastOp'.caps
                  /\ new.metadata = EmptyMap
          /\ (id \in DOMAIN sessions /\ ~CreatesRecord(lastOp', id))
               => LET old == sessions[id]
                  IN /\ new.clientCapabilities = old.clientCapabilities
                     /\ new.negotiatedCapabilities = old.negotiatedCapabilities
                     /\ new.createdAt = old.createdAt
                     /\ new.metadata # old.metadata
                          => /\ lastOp'.op = "updateSessionMetadata"
                             /\ lastOp'.id = id
                             /\ \A k \in DOMAIN old.metadata : k \in DOMAIN new.metadata
          /\ (id \notin DOMAIN sessions) => CreatesRecord(lastOp', id)]_vars

\* a record with tools granted and with metadata was replaced by a createSession with
\* a client set without tools: the record holds the negotiation of the new set alone
\* and no metadata
C34_Witness ==
  /\ lastOp.op = "createSession"
  /\ lastOp.before.present /\ lastOp.before.hasMeta
  /\ "tools" \in lastOp.before.granted
  /\ lastOp.caps = CapsOf({"resources", "sampling"}, ExpOf({1, 2}))
  /\ sessions[lastOp.id].clientCapabilities = lastOp.caps
  /\ sessions[lastOp.id].negotiatedCapabilities
       = negotiateCapabilities(serverCapabilities, lastOp.caps)
  /\ ~sessions[lastOp.id].negotiatedCapabilities.tools
  /\ sessions[lastOp.id].metadata = EmptyMap

\* C35: hasCapability(id, 'experimental') is true only for a session with at least
\* one experimental key negotiated true; it is false when server and client both
\* advertise an experimental map and no key is advertised by both.
C35_ExperimentalNeedsSharedKey ==
  \A id \in DOMAIN sessions :
    hasCapability(sessions, id, "experimental")
      => sessions[id].negotiatedCapabilities.experimental.keys # {}

\* the operations of the store that are given one session id
SingleIdOps == {"createSession", "getSession", "updateSessionMetadata", "removeSession"}

\* C36: createSession, getSession, updateSessionMetadata and removeSession for one id
\* change neither the presence nor any field of a session with another id, and
\* removeSession and updateSessionMetadata for an absent id change nothing.
C36_OtherSessionsUntouched ==
  [][lastOp'.op \in SingleIdOps =>
       /\ \A x \in ((DOMAIN sessions) \cup (DOMAIN sessions')) \ {lastOp'.id} :
            /\ x \in DOMAIN sessions
            /\ x \in DOMAIN sessions'
            /\ sessions'[x] = sessions[x]
       /\ (lastOp'.op \in {"removeSession", "updateSessionMetadata"}
             /\ lastOp'.id \notin DOMAIN sessions)
            => /\ sessions' = sessions
               /\ UNCHANGED <<serverCapabilities, streamSessions, inFlight, now, sseVars>>]_vars

\* metadata was written to one session at a later time while another session, created
\* before, is in the store with no metadata and its first timestamps
C36_Witness ==
  /\ lastOp.op = "updateSessionMetadata"
  /\ lastOp.id \in DOMAIN sessions
  /\ sessions[lastOp.id].metadata # EmptyMap
  /\ sessions[lastOp.id].lastActivity = 1
  /\ \E x \in (DOMAIN sessions) \ {lastOp.id} :
       /\ sessions[x].metadata = EmptyMap
       /\ sessions[x].lastActivity = 0

\* the session ids either endpoint looks up
EndpointSessionIds == StreamSessionIds \cup {HttpSessionId}

\* C37: POST /mcp and the streaming endpoints work on separate session stores: a
\* request on POST /mcp, initialize included, changes hasCapability for no id of the
\* streaming store, and a request dispatched to the streaming handlers changes
\* hasCapability for no id of the store behind POST /mcp.
C37_SeparateStores ==
  [][/\ lastOp'.op = "http"
          => /\ \A id \in EndpointSessionIds : \A k \in CapKeys :
                  hasCapability(streamSessions', id, k)
                    = hasCapability(streamSessions, id, k)
             /\ streamSessions' = streamSessions
     /\ lastOp'.op = "stream"
          => /\ \A id \in EndpointSessionIds : \A k \in CapKeys :
                  hasCapability(sessions', id, k) = hasCapability(sessions, id, k)
             /\ sessions' = sessions]_vars

\* initialize on POST /mcp has granted tools there while the streaming session
\* 'sse-1', initialized without tools, still has none, and 'default' has no record
C37_Witness ==
  /\ lastOp.op = "http"
  /\ lastOp.request.method = "initialize"
  /\ ~("tools" \in lastOp.before.granted)
  /\ hasCapability(sessions, HttpSessionId, "tools")
  /\ "sse-1" \in DOMAIN streamSessions
  /\ hasCapability(streamSessions, "sse-1", "resources")
  /\ ~hasCapability(streamSessions, "sse-1", "tools")
  /\ "default" \notin DOMAIN streamSessions
  /\ HttpSessionId \notin DOMAIN streamSessions

\* C38: the interval callback removes no session for which a handleMessage call is
\* awaiting the transport's inbound handler.
C38_NoEvictionInFlight ==
  lastOp.op = "sweep" => \A id \in lastOp.closed : inFlight[id] = 0

====
